---- MODULE Spec2Model ----
(***************************************************************************)
(* A model of the lifecycle-hook engine of                                 *)
(* components/core/src/templating/hooks.rs: the content-addressed write of *)
(* a compiled hook (write_hook), Hook::compile, HookTable::load and        *)
(* HookTable::compile, and Hook::run with its output streaming.            *)
(*                                                                         *)
(* The module holds three specifications over disjoint groups of           *)
(* variables; each leaves the other groups at their initial values:        *)
(*   SpecWrite  write_hook called directly on one path                     *)
(*   Spec       HookTable::load, then HookTable::compile / Hook::compile   *)
(*   SpecRun    Hook::run of one compiled hook against one child process   *)
(***************************************************************************)
EXTENDS Integers, Sequences, FiniteSets, TLC

(***************************************************************************)
(* Bounds of the model.                                                    *)
(***************************************************************************)
\* longest hook content (in characters) the model renders or writes
MaxLen == 1
\* number of direct write_hook calls followed in SpecWrite
MaxWrites == 2
\* number of compile calls (HookTable::compile or Hook::compile) followed
MaxCalls == 2
\* number of lines the child of a run writes (to both streams together)
MaxOutput == 2
\* number of lines a pipe between the child and the supervisor holds
PipeCap == 1

(***************************************************************************)
(* State.                                                                  *)
(***************************************************************************)
\* SpecWrite
VARIABLES
    wfile,      \* the file at the path: its content, or Absent
    wcalls      \* the write_hook calls made so far, oldest first

\* Spec
VARIABLES
    templates,  \* the template directory
    loaded,     \* whether HookTable::load has run
    table,      \* the HookTable: per kind, the hook or NoHook
    loadlog,    \* the notices HookTable::load printed
    disk,       \* per kind, the compiled hook file
    ops         \* the compile calls made so far, oldest first

\* SpecRun
VARIABLES
    rkind,      \* the kind of the hook that is run
    rpc,        \* where Hook::run stands
    child,      \* the child process: its state, what it has yet to write,
                \* its exit status
    out_pipe,   \* the lines in the pipe from the child's stdout
    err_pipe,   \* the lines in the pipe from the child's stderr
    out_log,    \* the stdout log file: its lines, or Absent
    err_log,    \* the stderr log file: its lines, or Absent
    live,       \* what outputln! has printed, oldest first
    events,     \* the steps Hook::run has taken, oldest first
    result,     \* what Hook::run returned: <<value>>, or << >> before
    prior_out   \* the stdout log file as it was when Hook::run was called

\* SpecOverlap
VARIABLES
    inv,        \* the invocations of Hook::run in flight: of each its kind,
                \* its service, where it stands and the offsets of its handles
    log_files,  \* the log files: per path, Absent or the lines it holds
    opened_by   \* the pairs <<invocation, path>> of the log files created

\* SpecLoad
VARIABLES
    ldir,       \* the template directory Hook::load is called on
    lcall       \* the call of Hook::load made: <<its kind, slot and
                \* notices>>, or << >> before

wvars == <<wfile, wcalls>>
cvars == <<templates, loaded, table, loadlog, disk, ops>>
rvars == <<rkind, rpc, child, out_pipe, err_pipe, out_log, err_log, live,
           events, result, prior_out>>
ovars == <<inv, log_files, opened_by>>
lvars == <<ldir, lcall>>
vars == <<wvars, cvars, rvars, ovars, lvars>>

(***************************************************************************)
(* Text.  A String is a sequence of characters; "" is the empty sequence.  *)
(***************************************************************************)
Alphabet == {"a", "b"}

RECURSIVE StringsOfLen(_)
StringsOfLen(n) ==
    IF n = 0 THEN {<< >>}
    ELSE {Append(s, c) : s \in StringsOfLen(n - 1), c \in Alphabet}

Contents == UNION {StringsOfLen(n) : n \in 0..MaxLen}

EmptyString == << >>

\* the state of a path at which no file exists
Absent == <<"<absent>">>

FileStates == Contents \cup {Absent}

(***************************************************************************)
(* crypto::hash.  The digest is a fixed-width, never empty string that     *)
(* differs for different inputs (no collisions among the bounded           *)
(* contents): the content, a terminator, and padding up to the width.      *)
(***************************************************************************)
RECURSIVE Padding(_)
Padding(n) == IF n <= 0 THEN << >> ELSE <<"0">> \o Padding(n - 1)

hash_string(content) == content \o <<"1">> \o Padding(MaxLen - Len(content))

\* hash_file reads the bytes of an existing file and digests them
hash_file(bytes) == hash_string(bytes)

(***************************************************************************)
(* Failures of the file system that a call can meet.  at names the step    *)
(* that fails if the call reaches it; a write_all that fails has written   *)
(* the first n bytes.                                                      *)
(***************************************************************************)
NoFault == [at |-> "none", n |-> 0]

WriteFaults ==
    [at : {"none", "hash_file", "create"}, n : {0}]
        \cup [at : {"write_all"}, n : 0..(MaxLen - 1)]

Ok(b) == [ok |-> TRUE, val |-> b]
Err(what) == [ok |-> FALSE, val |-> what]

\* mode bits of a file File::create makes anew (0o666 under umask 022)
CreatedMode == 420
\* HOOK_PERMISSIONS = 0o755
HOOK_PERMISSIONS == 493

Prefix(s, n) == SubSeq(s, 1, n)

\* a hash_content that digests the empty string for a missing file
hash_content_digest_of_empty(cur, fault) ==
    IF cur # Absent
    THEN IF fault.at = "hash_file" THEN Err("io") ELSE Ok(hash_file(cur))
    ELSE Ok(hash_string(EmptyString))

\* hash_content: the digest of the file, or the empty String if it is absent
hash_content(cur, fault) ==
    IF cur # Absent
    THEN IF fault.at = "hash_file" THEN Err("io") ELSE Ok(hash_file(cur))
    ELSE Ok(EmptyString)

\* a write that opens the file for appending instead of truncating it
create_and_write_appending(content, cur, fault) ==
    IF fault.at = "create" THEN [res |-> Err("io"), file |-> cur]
    ELSE IF fault.at = "write_all" /\ fault.n < Len(content)
    THEN [res |-> Err("io"), file |-> Prefix(content, fault.n)]
    ELSE [res |-> Ok(TRUE),
          file |-> IF cur = Absent THEN content ELSE cur \o content]

\* File::create followed by write_all: the file is truncated, then filled
create_and_write(content, cur, fault) ==
    IF fault.at = "create" THEN [res |-> Err("io"), file |-> cur]
    ELSE IF fault.at = "write_all" /\ fault.n < Len(content)
    THEN [res |-> Err("io"), file |-> Prefix(content, fault.n)]
    ELSE [res |-> Ok(TRUE), file |-> content]

\* a write_hook without the hash gate: it always rewrites the file
write_hook_always_writes(content, cur, fault) ==
    LET existing_hash == hash_content(cur, fault)
    IN  IF ~existing_hash.ok THEN [res |-> existing_hash, file |-> cur]
        ELSE create_and_write(content, cur, fault)

\* a write_hook that compares the lengths of the two texts, not their hashes
write_hook_compares_length(content, cur, fault) ==
    LET existing_hash == hash_content(cur, fault)
    IN  IF ~existing_hash.ok THEN [res |-> existing_hash, file |-> cur]
        ELSE IF cur # Absent /\ Len(cur) = Len(content)
        THEN [res |-> Ok(FALSE), file |-> cur]
        ELSE create_and_write(content, cur, fault)

\* a write_hook whose gate works but which reports changed in either case
write_hook_reports_changed(content, cur, fault) ==
    LET content_hash == hash_string(content)
        existing_hash == hash_content(cur, fault)
    IN  IF ~existing_hash.ok THEN [res |-> existing_hash, file |-> cur]
        ELSE IF existing_hash.val = content_hash
        THEN [res |-> Ok(TRUE), file |-> cur]
        ELSE create_and_write(content, cur, fault)

\* write_hook(content, path): res is the Result<bool>, file the path afterwards
write_hook(content, cur, fault) ==
    LET content_hash == hash_string(content)
        existing_hash == hash_content(cur, fault)
    IN  IF ~existing_hash.ok THEN [res |-> existing_hash, file |-> cur]
        ELSE IF existing_hash.val = content_hash
        THEN [res |-> Ok(FALSE), file |-> cur]
        ELSE create_and_write(content, cur, fault)

(***************************************************************************)
(* The hook kinds.  A kind is named by its Rust type; file_name gives the  *)
(* name of its script as a sequence of tokens, the hyphen being a token of *)
(* its own ("post-run" is <<"post", "-", "run">>).                         *)
(***************************************************************************)
file_name(kind) ==
    CASE kind = "FileUpdatedHook" -> <<"file", "-", "updated">>
      [] kind = "HealthCheckHook" -> <<"health", "-", "check">>
      [] kind = "InitHook"        -> <<"init">>
      [] kind = "InstallHook"     -> <<"install">>
      [] kind = "RunHook"         -> <<"run">>
      [] kind = "PostRunHook"     -> <<"post", "-", "run">>
      [] kind = "ReloadHook"      -> <<"reload">>
      [] kind = "ReconfigureHook" -> <<"reconfigure">>
      [] kind = "SmokeTestHook"   -> <<"smoke", "-", "test">>
      [] kind = "SuitabilityHook" -> <<"suitability">>
      [] kind = "PostStopHook"    -> <<"post", "-", "stop">>

\* the order in which HookTable::load fills the slots
LoadOrder ==
    <<"FileUpdatedHook", "HealthCheckHook", "SuitabilityHook", "InitHook",
      "InstallHook", "ReloadHook", "ReconfigureHook", "RunHook",
      "PostRunHook", "SmokeTestHook", "PostStopHook">>

\* the order in which HookTable::compile visits the slots
CompileOrder ==
    <<"FileUpdatedHook", "HealthCheckHook", "InitHook", "InstallHook",
      "ReloadHook", "ReconfigureHook", "SuitabilityHook", "RunHook",
      "PostRunHook", "SmokeTestHook", "PostStopHook">>

Kinds == {CompileOrder[i] : i \in 1..Len(CompileOrder)}

\* a variant of contains that finds nothing
contains_never(name, tok) == FALSE

\* str::contains and str::replace on a tokenised name
contains(name, tok) == \E i \in 1..Len(name) : name[i] = tok

replace(name, from, to) ==
    [i \in 1..Len(name) |-> IF name[i] = from THEN to ELSE name[i]]

(***************************************************************************)
(* The template directory.  what is "dir", "file" or "missing"; files      *)
(* holds one record per template file: its name and the shape of its       *)
(* source.  A "var" template prints the message of the context, a "const"  *)
(* template prints a fixed text, a "bad" template does not parse.          *)
(***************************************************************************)
Tpl(name, shape) == [name |-> name, shape |-> shape]

exists(tdir, name) == \E f \in tdir.files : f.name = name

shape_of(tdir, name) == (CHOOSE f \in tdir.files : f.name = name).shape

NoHook == [present |-> FALSE, template |-> << >>, shape |-> "none"]

Notice(msg, about) == [msg |-> msg, about |-> about]

\* RenderPair::new: register_template_file fails on a template that does
\* not parse
RenderPair_new(tdir, template) ==
    IF shape_of(tdir, template) = "bad" THEN Err("template")
    ELSE Ok([present |-> TRUE, template |-> template,
             shape |-> shape_of(tdir, template)])

\* a Hook::load that looks for the canonical name only
Hook_load_canonical_only(kind, tdir) ==
    IF exists(tdir, file_name(kind))
    THEN LET pair == RenderPair_new(tdir, file_name(kind))
         IN  IF pair.ok THEN [hook |-> pair.val, log |-> << >>]
             ELSE [hook |-> NoHook,
                   log |-> <<Notice("Failed to load hook", file_name(kind))>>]
    ELSE [hook |-> NoHook, log |-> << >>]

\* Hook::load: the slot for kind and the notices it prints
Hook_load(kind, tdir) ==
    LET name == file_name(kind)
        has_deprecated_name == contains(name, "-")
        deprecated_file_name == replace(name, "-", "_")
        has_template == exists(tdir, name)
        has_deprecated_template ==
            has_deprecated_name /\ exists(tdir, deprecated_file_name)
        found == has_template \/ has_deprecated_template
        template_to_use ==
            IF has_template THEN name ELSE deprecated_file_name
        notices ==
            IF has_template /\ has_deprecated_template
            THEN <<Notice("Deprecated hook file detected along with expected one",
                          deprecated_file_name)>>
            ELSE IF ~has_template /\ has_deprecated_template
            THEN <<Notice("Deprecated hook file detected",
                          deprecated_file_name)>>
            ELSE << >>
    IN  IF ~found THEN [hook |-> NoHook, log |-> << >>]
        ELSE LET pair == RenderPair_new(tdir, template_to_use)
             IN  IF pair.ok THEN [hook |-> pair.val, log |-> notices]
                 ELSE [hook |-> NoHook,
                       log |-> Append(notices,
                                   Notice("Failed to load hook", name))]

RECURSIVE load_notices(_, _)
load_notices(tdir, i) ==
    IF i > Len(LoadOrder) THEN << >>
    ELSE Hook_load(LoadOrder[i], tdir).log \o load_notices(tdir, i + 1)

EmptyTable == [k \in Kinds |-> NoHook]

\* a HookTable::load that fills the install slot from the init template
HookTable_load_install_from_init(tdir) ==
    IF tdir.what = "dir"
    THEN [table |-> [k \in Kinds |->
                        IF k = "InstallHook" THEN Hook_load("InitHook", tdir).hook
                        ELSE Hook_load(k, tdir).hook],
          log |-> load_notices(tdir, 1)]
    ELSE [table |-> EmptyTable, log |-> << >>]

\* a HookTable::load that reports a template directory it cannot read
HookTable_load_reports_missing(tdir) ==
    IF tdir.what = "dir"
    THEN [table |-> [k \in Kinds |-> Hook_load(k, tdir).hook],
          log |-> load_notices(tdir, 1)]
    ELSE [table |-> EmptyTable,
          log |-> <<Notice("Failed to load hooks", <<tdir.what>>)>>]

\* HookTable::load
HookTable_load(tdir) ==
    IF tdir.what = "dir"
    THEN [table |-> [k \in Kinds |-> Hook_load(k, tdir).hook],
          log |-> load_notices(tdir, 1)]
    ELSE [table |-> EmptyTable, log |-> << >>]

(***************************************************************************)
(* Rendering.  The context carries at most one value, the message; the     *)
(* engine fails on a "var" template when the context has no message.       *)
(***************************************************************************)
CtxMessages == {EmptyString, <<"a">>}

Ctxs == [has_message : {TRUE}, message : CtxMessages]
            \cup [has_message : {FALSE}, message : {EmptyString}]

ConstText == <<"b">>

\* TemplateRenderer::render of the template a hook was loaded with
render(hook, ctx) ==
    IF hook.shape = "const" THEN Ok(ConstText)
    ELSE IF ctx.has_message THEN Ok(ctx.message)
    ELSE Err("render")

(***************************************************************************)
(* The compiled hooks on disk: per kind, the content of the file at the    *)
(* canonical name in the service's hooks directory and its mode bits.      *)
(***************************************************************************)
NoFile == [content |-> Absent, mode |-> 0]

\* the failures a Hook::compile can meet; the texts rendered here have at
\* most one character, so that a failing write_all has written none
CompileFaults ==
    [at : {"none", "hash_file", "create", "write_all", "set_permissions"},
     n : {0}]

\* the file after write_hook: a file made anew gets the default mode, a
\* file that existed keeps its mode
after_write(d, bytes) ==
    [content |-> bytes,
     mode |-> IF d.content = Absent /\ bytes # Absent
              THEN CreatedMode ELSE d.mode]

\* Hook::set_permissions (posix_perm::set_permissions with HOOK_PERMISSIONS)
set_permissions(d, fault) ==
    IF fault.at = "set_permissions" THEN Err("perm")
    ELSE Ok([d EXCEPT !.mode = HOOK_PERMISSIONS])

Outcome(res, d, wrote, chmod, log) ==
    [res |-> res, disk |-> d, wrote |-> wrote, chmod_called |-> chmod,
     log |-> log]

\* a Hook::compile that hardens the permissions whatever write_hook reports
Hook_compile_always_hardens(kind, hook, ctx, d, fault) ==
    LET content == render(hook, ctx)
    IN  IF ~content.ok THEN Outcome(content, d, FALSE, FALSE, << >>)
        ELSE
        LET w == write_hook(content.val, d.content, fault)
            written == after_write(d, w.file)
            perm == set_permissions(written, fault)
        IN  IF ~w.res.ok THEN Outcome(w.res, written, FALSE, FALSE, << >>)
            ELSE IF ~perm.ok
            THEN Outcome(perm, written, w.res.val, TRUE, << >>)
            ELSE Outcome(w.res, perm.val, w.res.val, TRUE,
                     IF w.res.val
                     THEN <<Notice("Modified hook content", file_name(kind))>>
                     ELSE << >>)

\* a Hook::compile that puts the old file back when the hardening fails
Hook_compile_rolls_back(kind, hook, ctx, d, fault) ==
    LET content == render(hook, ctx)
    IN  IF ~content.ok THEN Outcome(content, d, FALSE, FALSE, << >>)
        ELSE
        LET w == write_hook(content.val, d.content, fault)
            written == after_write(d, w.file)
            modified == <<Notice("Modified hook content", file_name(kind))>>
        IN  IF ~w.res.ok THEN Outcome(w.res, written, FALSE, FALSE, << >>)
            ELSE IF w.res.val
            THEN LET perm == set_permissions(written, fault)
                 IN  IF perm.ok
                     THEN Outcome(Ok(TRUE), perm.val, TRUE, TRUE, modified)
                     ELSE Outcome(perm, d, TRUE, TRUE, modified)
            ELSE Outcome(Ok(FALSE), written, FALSE, FALSE, << >>)

\* a Hook::compile that truncates the compiled file before it renders
Hook_compile_truncates_first(kind, hook, ctx, d, fault) ==
    LET content == render(hook, ctx)
        truncated == after_write(d, EmptyString)
    IN  IF ~content.ok THEN Outcome(content, truncated, FALSE, FALSE, << >>)
        ELSE
        LET w == write_hook(content.val, d.content, fault)
            written == after_write(d, w.file)
            modified == <<Notice("Modified hook content", file_name(kind))>>
        IN  IF ~w.res.ok THEN Outcome(w.res, written, FALSE, FALSE, << >>)
            ELSE IF w.res.val
            THEN LET perm == set_permissions(written, fault)
                 IN  IF perm.ok
                     THEN Outcome(Ok(TRUE), perm.val, TRUE, TRUE, modified)
                     ELSE Outcome(perm, written, TRUE, TRUE, modified)
            ELSE Outcome(Ok(FALSE), written, FALSE, FALSE, << >>)

\* Hook::compile: res is the Result<bool>, disk the compiled file afterwards,
\* wrote whether write_hook reported changed, chmod_called whether
\* set_permissions was called, log the notices printed
Hook_compile(kind, hook, ctx, d, fault) ==
    LET content == render(hook, ctx)
    IN  IF ~content.ok THEN Outcome(content, d, FALSE, FALSE, << >>)
        ELSE
        LET w == write_hook(content.val, d.content, fault)
            written == after_write(d, w.file)
            modified == <<Notice("Modified hook content", file_name(kind))>>
        IN  IF ~w.res.ok THEN Outcome(w.res, written, FALSE, FALSE, << >>)
            ELSE IF w.res.val
            THEN LET perm == set_permissions(written, fault)
                 IN  IF perm.ok
                     THEN Outcome(Ok(TRUE), perm.val, TRUE, TRUE, modified)
                     ELSE Outcome(perm, written, TRUE, TRUE, modified)
            ELSE Outcome(Ok(FALSE), written, FALSE, FALSE, << >>)

\* what one Hook::compile call did, as the history keeps it
Attempt(kind, ctx, d, c) ==
    [kind |-> kind, ctx |-> ctx, pre |-> d, post |-> c.disk, res |-> c.res,
     wrote |-> c.wrote, chmod_called |-> c.chmod_called]

\* HookTable::compile_one: an error is printed and counts as unchanged
compile_one(kind, hook, ctx, d, fault) ==
    LET c == Hook_compile(kind, hook, ctx, d, fault)
    IN  [status |-> IF c.res.ok THEN c.res.val ELSE FALSE,
         attempt |-> Attempt(kind, ctx, d, c),
         log |-> IF c.res.ok THEN c.log
                 ELSE Append(c.log, Notice("Failed to compile hook",
                                           file_name(kind)))]

\* a step that skips compile_one once changed is true (changed || compile_one)
compile_step_short_circuit(acc, kind, hook, ctx, fault) ==
    IF acc.changed THEN acc
    ELSE
    LET r == compile_one(kind, hook, ctx, acc.disk[kind], fault)
    IN  [changed |-> r.status \/ acc.changed,
         disk |-> [acc.disk EXCEPT ![kind] = r.attempt.post],
         attempts |-> Append(acc.attempts, r.attempt),
         log |-> acc.log \o r.log]

\* one "if let Some(ref hook) = ..." block of HookTable::compile
compile_step(acc, kind, hook, ctx, fault) ==
    LET r == compile_one(kind, hook, ctx, acc.disk[kind], fault)
    IN  [changed |-> r.status \/ acc.changed,
         disk |-> [acc.disk EXCEPT ![kind] = r.attempt.post],
         attempts |-> Append(acc.attempts, r.attempt),
         log |-> acc.log \o r.log]

RECURSIVE compile_from(_, _, _, _, _)
compile_from(i, tbl, ctx, faults, acc) ==
    IF i > Len(CompileOrder) THEN acc
    ELSE LET kind == CompileOrder[i]
         IN  IF tbl[kind].present
             THEN compile_from(i + 1, tbl, ctx, faults,
                      compile_step(acc, kind, tbl[kind], ctx, faults[kind]))
             ELSE compile_from(i + 1, tbl, ctx, faults, acc)

\* HookTable::compile: changed is the value returned
HookTable_compile(tbl, ctx, d, faults) ==
    compile_from(1, tbl, ctx, faults,
        [changed |-> FALSE, disk |-> d, attempts |-> << >>, log |-> << >>])

(***************************************************************************)
(* Exit values.  Every ExitValue is a record: type names the Rust type,    *)
(* tag the variant, n the number it carries (0 if none).                   *)
(***************************************************************************)
Bool(b) == [type |-> "bool", tag |-> IF b THEN "true" ELSE "false", n |-> 0]
HealthCheck(tag) == [type |-> "HealthCheck", tag |-> tag, n |-> 0]
ExitCode(code) == [type |-> "ExitCode", tag |-> "ExitCode", n |-> code]
\* health::HealthCheck::default()
HealthCheckDefault == HealthCheck("Unknown")
SmokeOk == [type |-> "SmokeCheck", tag |-> "Ok", n |-> 0]
SmokeFailed(code) == [type |-> "SmokeCheck", tag |-> "Failed", n |-> code]
\* health::SmokeCheck::default(), whichever variant that is
SmokeDefault == [type |-> "SmokeCheck", tag |-> "default", n |-> 0]
Some(v) == [type |-> "Option<u64>", tag |-> "Some", n |-> v]
None == [type |-> "Option<u64>", tag |-> "None", n |-> 0]

\* <Self::ExitValue as Default>::default()
default(kind) ==
    CASE kind \in {"FileUpdatedHook", "InitHook", "InstallHook",
                   "PostStopHook"} -> Bool(FALSE)
      [] kind = "HealthCheckHook" -> HealthCheckDefault
      [] kind \in {"RunHook", "PostRunHook", "ReloadHook",
                   "ReconfigureHook"} -> ExitCode(-1)
      [] kind = "SmokeTestHook" -> SmokeDefault
      [] kind = "SuitabilityHook" -> None

(***************************************************************************)
(* The status of a child that has terminated: it exited with a code, or a  *)
(* signal ended it and it has no code.                                     *)
(***************************************************************************)
Exited(code) == [exited |-> TRUE, code |-> code, signal |-> 0]
Signaled(sig) == [exited |-> FALSE, code |-> 0, signal |-> sig]

\* ExitStatus::success
success(status) == status.exited /\ status.code = 0

\* Hook::output_termination_message (unix)
output_termination_message(kind, status) ==
    <<Notice("was terminated by signal", file_name(kind))>>

(***************************************************************************)
(* Lines of output.  A line is a sequence of characters; InvalidByte       *)
(* stands for a byte sequence that is not UTF-8.                           *)
(***************************************************************************)
InvalidByte == "<invalid-utf8>"

Digits == <<"0", "1", "2", "3", "4", "5", "6", "7", "8", "9">>

IsDigit(c) == \E d \in 1..Len(Digits) : Digits[d] = c

DigitValue(c) == (CHOOSE d \in 1..Len(Digits) : Digits[d] = c) - 1

IsWhitespace(c) == c \in {" ", "\t", "\r"}

\* BufReader::lines yields Err for a line that is not UTF-8
decodable(line) == \A i \in 1..Len(line) : line[i] # InvalidByte

RECURSIVE trim_start(_)
trim_start(line) ==
    IF line # << >> /\ IsWhitespace(Head(line)) THEN trim_start(Tail(line))
    ELSE line

RECURSIVE trim_end(_)
trim_end(line) ==
    IF line # << >> /\ IsWhitespace(line[Len(line)])
    THEN trim_end(SubSeq(line, 1, Len(line) - 1))
    ELSE line

\* str::trim
trim(line) == trim_end(trim_start(line))

RECURSIVE digits_value(_)
digits_value(ds) ==
    IF ds = << >> THEN 0
    ELSE 10 * digits_value(SubSeq(ds, 1, Len(ds) - 1))
             + DigitValue(ds[Len(ds)])

\* str::parse::<u64>: an optional "+", then one or more digits
parse_u64(text) ==
    LET ds == IF text # << >> /\ Head(text) = "+" THEN Tail(text) ELSE text
    IN  IF ds # << >> /\ \A i \in 1..Len(ds) : IsDigit(ds[i])
        THEN Ok(digits_value(ds))
        ELSE Err("ParseIntError")

(***************************************************************************)
(* handle_exit, per kind.  out is what HookOutput::stdout gives: whether   *)
(* the stdout log file could be opened, and its lines.  The result is the  *)
(* ExitValue and the notices printed.                                      *)
(***************************************************************************)
Exit(value, log) == [value |-> value, log |-> log]

handle_exit_FileUpdatedHook(status, out) == Exit(Bool(success(status)), << >>)

\* a variant of handle_exit_HealthCheckHook with codes 1 and 2 exchanged
handle_exit_HealthCheckHook_swapped(status, out) ==
    IF ~status.exited
    THEN Exit(HealthCheckDefault,
              output_termination_message("HealthCheckHook", status))
    ELSE CASE status.code = 0 -> Exit(HealthCheck("Ok"), << >>)
           [] status.code = 1 -> Exit(HealthCheck("Critical"), << >>)
           [] status.code = 2 -> Exit(HealthCheck("Warning"), << >>)
           [] OTHER -> Exit(HealthCheck("Unknown"), << >>)

handle_exit_HealthCheckHook(status, out) ==
    IF ~status.exited
    THEN Exit(HealthCheckDefault,
              output_termination_message("HealthCheckHook", status))
    ELSE CASE status.code = 0 -> Exit(HealthCheck("Ok"), << >>)
           [] status.code = 1 -> Exit(HealthCheck("Warning"), << >>)
           [] status.code = 2 -> Exit(HealthCheck("Critical"), << >>)
           [] status.code = 3 -> Exit(HealthCheck("Unknown"), << >>)
           [] OTHER ->
                Exit(HealthCheckDefault,
                     <<Notice("Health check exited with an unknown status code",
                              <<status.code>>)>>)

\* a variant of handle_exit_InitHook that takes every exit code for success
handle_exit_InitHook_any_code(status, out) ==
    IF ~status.exited
    THEN Exit(Bool(FALSE),
              <<Notice("Initialization failed! exited without a status code",
                       file_name("InitHook"))>>)
    ELSE Exit(Bool(TRUE), << >>)

handle_exit_InitHook(status, out) ==
    IF ~status.exited
    THEN Exit(Bool(FALSE),
              <<Notice("Initialization failed! exited without a status code",
                       file_name("InitHook"))>>)
    ELSE IF status.code = 0 THEN Exit(Bool(TRUE), << >>)
    ELSE Exit(Bool(FALSE),
              <<Notice("Initialization failed! exited with status code",
                       <<status.code>>)>>)

handle_exit_InstallHook(status, out) ==
    IF ~status.exited
    THEN Exit(Bool(FALSE), output_termination_message("InstallHook", status))
    ELSE IF status.code = 0 THEN Exit(Bool(TRUE), << >>)
    ELSE Exit(Bool(FALSE),
              <<Notice("Installation failed! exited with status code",
                       <<status.code>>)>>)

handle_exit_PostStopHook(status, out) ==
    IF ~status.exited
    THEN Exit(Bool(FALSE), output_termination_message("PostStopHook", status))
    ELSE IF status.code = 0 THEN Exit(Bool(TRUE), << >>)
    ELSE Exit(Bool(FALSE),
              <<Notice("Post stop failed! exited with status code",
                       <<status.code>>)>>)

\* a variant of handle_exit_code_verbatim that keeps the exit code in a
\* signed byte
handle_exit_code_signed_byte(kind, status) ==
    IF ~status.exited
    THEN Exit(ExitCode(-1), output_termination_message(kind, status))
    ELSE Exit(ExitCode(IF status.code > 127 THEN status.code - 256
                       ELSE status.code), << >>)

\* RunHook, PostRunHook and ReconfigureHook share one body
handle_exit_code_verbatim(kind, status) ==
    IF ~status.exited
    THEN Exit(ExitCode(-1), output_termination_message(kind, status))
    ELSE Exit(ExitCode(status.code), << >>)

\* a variant of handle_exit_ReloadHook that reports a failed reload as -1
handle_exit_ReloadHook_failure_is_default(status, out) ==
    IF ~status.exited
    THEN Exit(ExitCode(-1), output_termination_message("ReloadHook", status))
    ELSE IF status.code = 0 THEN Exit(ExitCode(0), << >>)
    ELSE Exit(ExitCode(-1),
              <<Notice("Reload failed! exited with status code",
                       <<status.code>>)>>)

handle_exit_ReloadHook(status, out) ==
    IF ~status.exited
    THEN Exit(ExitCode(-1), output_termination_message("ReloadHook", status))
    ELSE IF status.code = 0 THEN Exit(ExitCode(0), << >>)
    ELSE Exit(ExitCode(status.code),
              <<Notice("Reload failed! exited with status code",
                       <<status.code>>)>>)

\* a variant of handle_exit_SmokeTestHook that drops the exit code
handle_exit_SmokeTestHook_drops_code(status, out) ==
    IF ~status.exited
    THEN Exit(SmokeFailed(-1),
              output_termination_message("SmokeTestHook", status))
    ELSE IF status.code = 0 THEN Exit(SmokeOk, << >>)
    ELSE Exit(SmokeFailed(-1), << >>)

handle_exit_SmokeTestHook(status, out) ==
    IF ~status.exited
    THEN Exit(SmokeFailed(-1),
              output_termination_message("SmokeTestHook", status))
    ELSE IF status.code = 0 THEN Exit(SmokeOk, << >>)
    ELSE Exit(SmokeFailed(status.code), << >>)

\* a variant of handle_exit_SuitabilityHook that reads the first line
handle_exit_SuitabilityHook_first_line(status, out) ==
    IF ~status.exited
    THEN Exit(None, output_termination_message("SuitabilityHook", status))
    ELSE IF status.code # 0
    THEN Exit(None, <<Notice("exited with status code", <<status.code>>)>>)
    ELSE IF ~out.opened THEN Exit(None, << >>)
    ELSE IF out.lines = << >>
    THEN Exit(None, <<Notice("did not print anything to stdout",
                             file_name("SuitabilityHook"))>>)
    ELSE LET line == out.lines[1]
         IN  IF ~decodable(line)
             THEN Exit(None, <<Notice("Failed to read last line of stdout",
                                      line)>>)
             ELSE LET parsed == parse_u64(trim(line))
                  IN  IF parsed.ok
                      THEN Exit(Some(parsed.val),
                                <<Notice("Reporting suitability of",
                                         <<parsed.val>>)>>)
                      ELSE Exit(None, <<Notice("Parsing suitability failed",
                                               line)>>)

handle_exit_SuitabilityHook(status, out) ==
    IF ~status.exited
    THEN Exit(None, output_termination_message("SuitabilityHook", status))
    ELSE IF status.code # 0
    THEN Exit(None, <<Notice("exited with status code", <<status.code>>)>>)
    ELSE IF ~out.opened THEN Exit(None, << >>)
    ELSE IF out.lines = << >>
    THEN Exit(None, <<Notice("did not print anything to stdout",
                             file_name("SuitabilityHook"))>>)
    ELSE LET line == out.lines[Len(out.lines)]
         IN  IF ~decodable(line)
             THEN Exit(None, <<Notice("Failed to read last line of stdout",
                                      line)>>)
             ELSE LET parsed == parse_u64(trim(line))
                  IN  IF parsed.ok
                      THEN Exit(Some(parsed.val),
                                <<Notice("Reporting suitability of",
                                         <<parsed.val>>)>>)
                      ELSE Exit(None, <<Notice("Parsing suitability failed",
                                               line)>>)

\* Hook::handle_exit, dispatched on the kind
handle_exit(kind, status, out) ==
    CASE kind = "FileUpdatedHook" -> handle_exit_FileUpdatedHook(status, out)
      [] kind = "HealthCheckHook" -> handle_exit_HealthCheckHook(status, out)
      [] kind = "InitHook" -> handle_exit_InitHook(status, out)
      [] kind = "InstallHook" -> handle_exit_InstallHook(status, out)
      [] kind = "PostStopHook" -> handle_exit_PostStopHook(status, out)
      [] kind = "ReloadHook" -> handle_exit_ReloadHook(status, out)
      [] kind = "SmokeTestHook" -> handle_exit_SmokeTestHook(status, out)
      [] kind = "SuitabilityHook" -> handle_exit_SuitabilityHook(status, out)
      [] kind \in {"RunHook", "PostRunHook", "ReconfigureHook"} ->
             handle_exit_code_verbatim(kind, status)

(***************************************************************************)
(* Spec: a service's hooks are loaded from its template directory and then *)
(* compiled, as a table or one hook at a time.                             *)
(***************************************************************************)
Dir(files) == [what |-> "dir", files |-> files]

\* the template directories the model starts from
TemplateDirs ==
    { [what |-> "missing", files |-> {}],
      [what |-> "file", files |-> {}],
      Dir({}),
      Dir({Tpl(<<"init">>, "var"), Tpl(<<"run">>, "const")}),
      Dir({Tpl(<<"init">>, "bad"), Tpl(<<"run">>, "var"),
           Tpl(<<"default.toml">>, "const")}),
      Dir({Tpl(<<"health", "-", "check">>, "var"),
           Tpl(<<"health", "_", "check">>, "const")}),
      Dir({Tpl(<<"post", "_", "run">>, "var"), Tpl(<<"reload">>, "const")}),
      Dir({Tpl(<<"file", "-", "updated">>, "const"),
           Tpl(<<"post", "-", "stop">>, "var")}) }

\* the variables of a specification that is not running
WriteIdle == wfile = Absent /\ wcalls = << >>

CompileIdle ==
    /\ templates = Dir({})
    /\ loaded = FALSE
    /\ table = EmptyTable
    /\ loadlog = << >>
    /\ disk = [k \in Kinds |-> NoFile]
    /\ ops = << >>

\* what the operating system answered to Hook::exec, before it is asked
NoEnv == [can_run_as_svc_user |-> FALSE, uid_found |-> FALSE,
          gid_found |-> FALSE, spawns |-> FALSE]

NoChild == [state |-> "none", script |-> << >>, wrote |-> << >>,
            uid |-> "none", status |-> Exited(0), env |-> NoEnv]

RunIdle ==
    /\ rkind = "InitHook"
    /\ rpc = "start"
    /\ child = NoChild
    /\ out_pipe = << >>
    /\ err_pipe = << >>
    /\ out_log = Absent
    /\ err_log = Absent
    /\ live = << >>
    /\ events = << >>
    /\ result = << >>
    /\ prior_out = Absent

OverlapIdle == inv = << >> /\ log_files = << >> /\ opened_by = {}

LoadIdle == ldir = Dir({}) /\ lcall = << >>

Init ==
    /\ templates \in TemplateDirs
    /\ loaded = FALSE
    /\ table = EmptyTable
    /\ loadlog = << >>
    /\ disk = [k \in Kinds |-> NoFile]
    /\ ops = << >>
    /\ WriteIdle
    /\ RunIdle
    /\ OverlapIdle
    /\ LoadIdle

Load ==
    /\ ~loaded
    /\ loaded' = TRUE
    /\ table' = HookTable_load(templates).table
    /\ loadlog' = HookTable_load(templates).log
    /\ UNCHANGED <<templates, disk, ops, wvars, rvars, ovars, lvars>>

CompileTable(ctx, faults) ==
    LET r == HookTable_compile(table, ctx, disk, faults)
    IN  /\ disk' = r.disk
        /\ ops' = Append(ops,
               [op |-> "HookTable::compile", ctx |-> ctx,
                ret |-> Ok(r.changed), attempts |-> r.attempts,
                log |-> r.log])
        /\ UNCHANGED <<templates, loaded, table, loadlog, wvars, rvars,
                       ovars, lvars>>

CompileHook(kind, ctx, fault) ==
    LET c == Hook_compile(kind, table[kind], ctx, disk[kind], fault)
    IN  /\ disk' = [disk EXCEPT ![kind] = c.disk]
        /\ ops' = Append(ops,
               [op |-> "Hook::compile", ctx |-> ctx, ret |-> c.res,
                attempts |-> <<Attempt(kind, ctx, disk[kind], c)>>,
                log |-> c.log])
        /\ UNCHANGED <<templates, loaded, table, loadlog, wvars, rvars,
                       ovars, lvars>>

Present(tbl) == {k \in Kinds : tbl[k].present}

\* a table or a hook is compiled once the table is loaded
CanCompile == loaded /\ Len(ops) < MaxCalls

\* a fault is drawn for a hook only where its compile meets it
Meets(kind, ctx, fault) ==
    \/ fault = NoFault
    \/ Hook_compile(kind, table[kind], ctx, disk[kind], fault).res
           # Hook_compile(kind, table[kind], ctx, disk[kind], NoFault).res

CompileAnyTable ==
    /\ CanCompile
    /\ \E ctx \in Ctxs, faults \in [Present(table) -> CompileFaults] :
           /\ \A kind \in Present(table) : Meets(kind, ctx, faults[kind])
           /\ CompileTable(ctx, faults)

CompileAnyHook ==
    /\ CanCompile
    /\ \E kind \in Present(table), ctx \in Ctxs, fault \in CompileFaults :
           /\ Meets(kind, ctx, fault)
           /\ CompileHook(kind, ctx, fault)

Next == Load \/ CompileAnyTable \/ CompileAnyHook

Spec == Init /\ [][Next]_vars

(***************************************************************************)
(* Properties of Hook::compile, HookTable::load and HookTable::compile     *)
(* (checked under Spec).                                                   *)
(***************************************************************************)
Ops == 1..Len(ops)

TableOps == {i \in Ops : ops[i].op = "HookTable::compile"}

AttemptsIn(i) == {ops[i].attempts[j] : j \in 1..Len(ops[i].attempts)}

InLog(log, notice) == \E j \in 1..Len(log) : log[j] = notice

RECURSIVE attempts_from(_)
attempts_from(i) ==
    IF i > Len(ops) THEN << >> ELSE ops[i].attempts \o attempts_from(i + 1)

\* the Hook::compile calls made on the hook of one kind, oldest first
CompileCalls(kind) ==
    LET IsKind(a) == a.kind = kind IN SelectSeq(attempts_from(1), IsKind)

\* C1: for a hook whose compiled file is absent, two Hook::compile calls in
\* a row with the same context, neither of them failing, return Ok(true)
\* and then Ok(false), and the file after the second call is the file
\* after the first.
C1_CompileTwice ==
    \A kind \in Kinds :
        LET h == CompileCalls(kind)
        IN  \A i \in 1..(Len(h) - 1) :
                (/\ h[i].pre.content = Absent
                 /\ h[i].ctx = h[i + 1].ctx
                 /\ h[i].res.ok /\ h[i + 1].res.ok) =>
                    /\ h[i].res = Ok(TRUE)
                    /\ h[i + 1].res = Ok(FALSE)
                    /\ h[i + 1].post = h[i].post

C1_Witness ==
    \E kind \in Kinds :
        LET h == CompileCalls(kind)
        IN  /\ Len(h) = 2
            /\ h[1].pre.content = Absent
            /\ h[1].ctx = h[2].ctx
            /\ h[1].res = Ok(TRUE)
            /\ h[2].res = Ok(FALSE)
            /\ h[2].post.content = <<"a">>

\* C6: Hook::compile calls set_permissions in exactly the calls in which
\* write_hook reports changed, and prints "Modified hook content" in
\* exactly those: a call that returns Ok(true) has rewritten the content
\* and leaves the file with HOOK_PERMISSIONS, a call that returns Ok(false)
\* leaves content and mode as they were.
C6_HardenedIffChanged ==
    \A i \in Ops : \A a \in AttemptsIn(i) :
        /\ a.chmod_called <=> a.wrote
        /\ InLog(ops[i].log,
                 Notice("Modified hook content", file_name(a.kind))) <=> a.wrote
        /\ a.wrote => (a.post.content # a.pre.content
                          /\ a.post.content # Absent)
        /\ a.res = Ok(TRUE) =>
               (a.wrote /\ a.post.mode = HOOK_PERMISSIONS)
        /\ a.res = Ok(FALSE) => (~a.wrote /\ a.post = a.pre)

C6_Witness ==
    \E i, j \in Ops : \E a \in AttemptsIn(i), b \in AttemptsIn(j) :
        /\ a.res = Ok(TRUE) /\ a.chmod_called
        /\ a.pre.mode # HOOK_PERMISSIONS /\ a.post.mode = HOOK_PERMISSIONS
        /\ b.res = Ok(FALSE) /\ ~b.chmod_called
        /\ b.pre.content # Absent

\* C7: HookTable::compile returns true whenever compiling one of the
\* present hooks wrote new content to its script on disk; a false return
\* implies that no compiled file was modified by the call.
C7_FalseMeansNothingWritten ==
    \A i \in TableOps :
        (\E a \in AttemptsIn(i) : a.wrote) => ops[i].ret = Ok(TRUE)

\* the kinds that have a hook in the table, in the order of compile
PresentInOrder ==
    LET IsPresent(k) == table[k].present IN SelectSeq(CompileOrder, IsPresent)

\* C8: each HookTable::compile call compiles every present hook, in the
\* fixed order, whatever the hooks before it returned; a hook whose compile
\* returns an error is printed and counts as false; the value returned is
\* the OR of the hooks' results.
C8_EveryHookCompiled ==
    \A i \in TableOps :
        /\ Len(ops[i].attempts) = Len(PresentInOrder)
        /\ \A j \in 1..Len(PresentInOrder) :
               ops[i].attempts[j].kind = PresentInOrder[j]
        /\ \A a \in AttemptsIn(i) :
               ~a.res.ok <=>
                   InLog(ops[i].log,
                         Notice("Failed to compile hook", file_name(a.kind)))
        /\ ops[i].ret = Ok(\E a \in AttemptsIn(i) : a.res = Ok(TRUE))

C8_Witness ==
    \E i, j \in TableOps :
        /\ Len(ops[i].attempts) = 2
        /\ ~ops[i].attempts[1].res.ok
        /\ ops[i].attempts[2].res = Ok(TRUE)
        /\ ops[i].ret = Ok(TRUE)
        /\ Len(ops[j].attempts) = 2
        /\ ops[j].attempts[1].res = Ok(TRUE)
        /\ ops[j].attempts[2].res = Ok(TRUE)

\* the template directory of the test compile_hook_table
Fixture == Dir({Tpl(<<"init">>, "var"), Tpl(<<"run">>, "const")})

AllOk(i) == \A a \in AttemptsIn(i) : a.res.ok

\* C9: a table loaded from a directory holding only the init and run
\* templates has exactly the init and run slots; its first compile (no
\* hook failing) writes exactly the two compiled files and returns true;
\* a second compile right after it with the same context returns false
\* and leaves both files as they were.
C9_InitAndRunOnly ==
    (templates = Fixture /\ loaded) =>
        /\ Present(table) = {"InitHook", "RunHook"}
        /\ \A k \in Kinds \ {"InitHook", "RunHook"} : disk[k] = NoFile
        /\ (1 \in TableOps /\ AllOk(1)) =>
               /\ ops[1].ret = Ok(TRUE)
               /\ Len(ops[1].attempts) = 2
               /\ \A a \in AttemptsIn(1) :
                      /\ a.kind \in {"InitHook", "RunHook"}
                      /\ a.pre = NoFile
                      /\ a.post.content = render(table[a.kind], ops[1].ctx).val
        /\ (1 \in TableOps /\ AllOk(1) /\ 2 \in TableOps /\ AllOk(2)
                /\ ops[1].ctx = ops[2].ctx) =>
               /\ ops[2].ret = Ok(FALSE)
               /\ \A a \in AttemptsIn(2) : a.post = a.pre

C9_Witness ==
    /\ templates = Fixture
    /\ Len(ops) = 2
    /\ TableOps = {1, 2}
    /\ ops[1].ctx = ops[2].ctx
    /\ ops[1].ret = Ok(TRUE)
    /\ ops[2].ret = Ok(FALSE)
    /\ disk["InitHook"].content = <<"a">>
    /\ disk["RunHook"].content = ConstText
    /\ disk["InitHook"].mode = HOOK_PERMISSIONS

(***************************************************************************)
(* SpecWrite: write_hook called directly, as the unit tests call it.       *)
(***************************************************************************)
InitWrite ==
    /\ wfile \in FileStates
    /\ wcalls = << >>
    /\ CompileIdle
    /\ RunIdle
    /\ OverlapIdle
    /\ LoadIdle

\* a fault is drawn only where the call can meet it
FaultCanOccur(fault, content) ==
    fault.at = "write_all" => fault.n < Len(content)

CallWriteHook(content, fault) ==
    /\ Len(wcalls) < MaxWrites
    /\ FaultCanOccur(fault, content)
    /\ LET r == write_hook(content, wfile, fault)
       IN  /\ wfile' = r.file
           /\ wcalls' = Append(wcalls,
                  [content |-> content, pre |-> wfile,
                   res |-> r.res, post |-> r.file])
    /\ UNCHANGED <<cvars, rvars, ovars, lvars>>

NextWrite == \E content \in Contents, fault \in WriteFaults :
                 CallWriteHook(content, fault)

SpecWrite == InitWrite /\ [][NextWrite]_vars

(***************************************************************************)
(* Properties of write_hook (checked under SpecWrite).                     *)
(***************************************************************************)
WCalls == 1..Len(wcalls)

\* C2: write_hook(content, path) on a file that already holds exactly
\* content performs no write (the file is the same afterwards) and, unless
\* reading the existing file failed, returns false.
C2_SameContentIsNoop ==
    \A i \in WCalls :
        wcalls[i].pre = wcalls[i].content =>
            /\ wcalls[i].post = wcalls[i].pre
            /\ wcalls[i].res.ok => wcalls[i].res = Ok(FALSE)

C2_Witness ==
    \E i \in WCalls :
        /\ wcalls[i].pre = wcalls[i].content
        /\ wcalls[i].res = Ok(FALSE)
        /\ wcalls[i].post = wcalls[i].content

\* C3 as claimed: for a path that does not exist the gate's digest equals
\* the digest of the empty string, so write_hook("", path) reports
\* unchanged and creates no file.
C3_AbsentHashesAsEmpty ==
    \A i \in WCalls :
        (wcalls[i].pre = Absent /\ wcalls[i].content = EmptyString
             /\ wcalls[i].res.ok) =>
            /\ hash_content(wcalls[i].pre, NoFault)
                   = Ok(hash_string(wcalls[i].content))
            /\ wcalls[i].res = Ok(FALSE)
            /\ wcalls[i].post = Absent

\* C3 amended: for a path that does not exist hash_content returns the empty
\* String, which is the digest of no content (not of the empty string
\* either); so write_hook("", path) against an absent path reports changed
\* and, unless File::create fails, leaves an empty file at the path.
C3_AbsentHashIsEmptyString ==
    \A i \in WCalls :
        wcalls[i].pre = Absent =>
            /\ hash_content(wcalls[i].pre, NoFault) = Ok(EmptyString)
            /\ hash_content(wcalls[i].pre, NoFault).val
                   # hash_string(wcalls[i].content)
            /\ wcalls[i].res.ok =>
                   (wcalls[i].res = Ok(TRUE)
                        /\ wcalls[i].post = wcalls[i].content)
            /\ ~wcalls[i].res.ok =>
                   (wcalls[i].post = Absent \/ wcalls[i].content # EmptyString)

C3_Witness ==
    \E i \in WCalls :
        /\ wcalls[i].pre = Absent
        /\ wcalls[i].content = EmptyString
        /\ wcalls[i].res = Ok(TRUE)
        /\ wcalls[i].post = EmptyString

\* C4: write_hook(content, path) on a path that is absent or holds other
\* content returns true (unless an I/O step fails) and then the file holds
\* exactly content, with nothing of the old content left.
C4_DifferentContentIsWritten ==
    \A i \in WCalls :
        (wcalls[i].pre # wcalls[i].content /\ wcalls[i].res.ok) =>
            (wcalls[i].res = Ok(TRUE) /\ wcalls[i].post = wcalls[i].content)

C4_Witness ==
    \E i \in WCalls :
        /\ wcalls[i].pre \notin {Absent, EmptyString, wcalls[i].content}
        /\ wcalls[i].res = Ok(TRUE)
        /\ wcalls[i].post = wcalls[i].content

\* two write_hook calls in a row, with distinct contents, both returning Ok
WPairs ==
    {i \in WCalls : /\ i + 1 \in WCalls
                    /\ wcalls[i].content # wcalls[i + 1].content
                    /\ wcalls[i].res.ok /\ wcalls[i + 1].res.ok}

\* C5 as claimed: for any distinct A and B and any path, write_hook(A)
\* then write_hook(B) returns true on both calls and leaves exactly B.
C5_BothCallsReturnTrue ==
    \A i \in WPairs :
        /\ wcalls[i].res = Ok(TRUE)
        /\ wcalls[i + 1].res = Ok(TRUE)
        /\ wcalls[i + 1].post = wcalls[i + 1].content

\* C5 amended: for distinct A and B, write_hook(A) then write_hook(B):
\* the second call returns true and leaves exactly B; the first call
\* returns true exactly when the path did not already hold A (when it did,
\* the first call returns false and writes nothing).
C5_SecondCallReturnsTrue ==
    \A i \in WPairs :
        /\ wcalls[i + 1].res = Ok(TRUE)
        /\ wcalls[i + 1].post = wcalls[i + 1].content
        /\ wcalls[i].res = Ok(TRUE) <=> wcalls[i].pre # wcalls[i].content
        /\ wcalls[i].post = wcalls[i].content

C5_Witness ==
    \E i \in WPairs :
        /\ wcalls[i].res = Ok(TRUE)
        /\ wcalls[i + 1].res = Ok(TRUE)
        /\ wcalls[i].post = wcalls[i].content
        /\ wcalls[i + 1].post = wcalls[i + 1].content
        /\ Len(wcalls[i].content) = Len(wcalls[i + 1].content)


(***************************************************************************)
(* SpecRun: Hook::run (unix) of one compiled hook.  The supervisor spawns  *)
(* the script as a child with its stdout and stderr piped, drains stdout   *)
(* to its end and then stderr to its end, waits for the child and hands    *)
(* its status to handle_exit.  The child runs on its own: it writes the    *)
(* lines of its script in order, blocks on a pipe that is full, and exits  *)
(* or is ended by a signal.                                                *)
(***************************************************************************)
\* what the operating system answers to Hook::exec; the names are looked
\* up only by a process that can change identity
ExecEnvs ==
    { env \in [can_run_as_svc_user : BOOLEAN, uid_found : BOOLEAN,
               gid_found : BOOLEAN, spawns : BOOLEAN] :
          ~env.can_run_as_svc_user => (env.uid_found /\ env.gid_found) }

\* a variant of exec that spawns as itself when an identity is missing
exec_ignores_missing_identity(env) ==
    IF env.can_run_as_svc_user /\ env.uid_found /\ env.gid_found
    THEN IF env.spawns THEN Ok("svc_user") ELSE Err("io")
    ELSE IF env.spawns THEN Ok("self")
    ELSE Err("io")

\* Hook::exec (unix): Ok carries the user the child runs as
exec(env) ==
    IF env.can_run_as_svc_user
    THEN IF ~env.uid_found THEN Err("PermissionFailed: No uid for user")
         ELSE IF ~env.gid_found THEN Err("PermissionFailed: No gid for group")
         ELSE IF env.spawns THEN Ok("svc_user")
         ELSE Err("io")
    ELSE IF env.spawns THEN Ok("self")
    ELSE Err("io")

\* the lines a script writes, each without its "\n": a number after a
\* blank, a word of a CRLF-terminated line, bytes that are not UTF-8
Lines == { <<" ", "4", "2">>, <<"x", "\r">>, <<InvalidByte>> }

\* BufReader::lines: the line without its "\n" or "\r\n"; Err and no line
\* if the bytes are not UTF-8
line_of(raw) ==
    IF ~decodable(raw) THEN Err("InvalidData")
    ELSE IF raw # << >> /\ raw[Len(raw)] = "\r"
    THEN Ok(SubSeq(raw, 1, Len(raw) - 1))
    ELSE Ok(raw)

Write(stream, line) == [stream |-> stream, line |-> line]

Writes == { Write(st, l) : st \in {"stdout", "stderr"}, l \in Lines }

RECURSIVE ScriptsOfLen(_)
ScriptsOfLen(n) ==
    IF n = 0 THEN { << >> }
    ELSE { Append(sc, w) : sc \in ScriptsOfLen(n - 1), w \in Writes }

Scripts == UNION { ScriptsOfLen(n) : n \in 0..MaxOutput }

\* the log files a previous run of the hook left behind
PriorStdout == << <<"7">> >>
PriorStderr == << <<"e">> >>

PriorLogs == { <<Absent, Absent>>, <<PriorStdout, PriorStderr>> }

\* the values a script hands to exit
ExitArgs == (-1)..4

\* the status wait reports for exit(n): the low eight bits of n
exit_status(n) == Exited(n % 256)

\* the statuses a child ends with
Statuses == { exit_status(n) : n \in ExitArgs } \cup { Signaled(9) }

\* HookOutput::stream_preamble, and a line printed under it
stream_preamble(kind) == <<"hook[">> \o file_name(kind) \o <<"]:">>

Streamed(kind, line) ==
    [msg |-> "hook output", about |-> <<stream_preamble(kind), line>>]

RunFailed(kind, err) ==
    Notice("Hook failed to run", file_name(kind) \o <<err>>)

InitRun ==
    /\ rkind \in Kinds
    /\ rpc = "start"
    /\ child \in { [NoChild EXCEPT !.script = sc] : sc \in Scripts }
    /\ out_pipe = << >>
    /\ err_pipe = << >>
    /\ \E prior \in PriorLogs : out_log = prior[1] /\ err_log = prior[2]
    /\ prior_out = out_log
    /\ live = << >>
    /\ events = << >>
    /\ result = << >>
    /\ WriteIdle
    /\ CompileIdle
    /\ OverlapIdle
    /\ LoadIdle


\* a variant of overrides_run in which every kind keeps the provided run
overrides_run_never(kind) == FALSE

\* the kinds whose impl replaces the provided Hook::run by a panic
overrides_run(kind) == kind = "RunHook"

\* Hook::run, entry: RunHook overrides run and panics; every other kind
\* calls exec and, if that fails, prints and returns the default
Exec(env) ==
    /\ rpc = "start"
    /\ IF overrides_run(rkind)
       THEN /\ rpc' = "panicked"
            /\ events' = Append(events, "run_panicked")
            /\ UNCHANGED <<child, live, result>>
       ELSE LET r == exec(env)
            IN  IF r.ok
                THEN /\ rpc' = "create_stdout_log"
                     /\ child' = [child EXCEPT !.state = "running",
                                               !.uid = r.val, !.env = env]
                     /\ events' = Append(events, "spawned")
                     /\ UNCHANGED <<live, result>>
                ELSE /\ rpc' = "returned"
                     /\ live' = Append(live, RunFailed(rkind, r.val))
                     /\ result' = <<default(rkind)>>
                     /\ events' = Append(events, "exec_failed")
                     /\ child' = [child EXCEPT !.env = env]
    /\ UNCHANGED <<prior_out, rkind,
                   out_pipe, err_pipe, out_log, err_log, wvars, cvars,
                   ovars, lvars>>

\* a variant of CreateStdoutLog that opens the log without truncating it
CreateStdoutLog_keeps_content(created) ==
    /\ rpc = "create_stdout_log"
    /\ IF created
       THEN /\ out_log' = (IF out_log = Absent THEN << >> ELSE out_log)
            /\ rpc' = "create_stderr_log"
            /\ events' = Append(events, "stdout_log_created")
       ELSE /\ rpc' = "panicked"
            /\ events' = Append(events, "create_panicked")
            /\ UNCHANGED out_log
    /\ UNCHANGED <<prior_out, rkind,
                   child, out_pipe, err_pipe, err_log, live, result,
                   wvars, cvars, ovars, lvars>>

\* stream_output: File::create of the stdout log, .expect on its failure
CreateStdoutLog(created) ==
    /\ rpc = "create_stdout_log"
    /\ IF created
       THEN /\ out_log' = << >>
            /\ rpc' = "create_stderr_log"
            /\ events' = Append(events, "stdout_log_created")
       ELSE /\ rpc' = "panicked"
            /\ events' = Append(events, "create_panicked")
            /\ UNCHANGED out_log
    /\ UNCHANGED <<prior_out, rkind,
                   child, out_pipe, err_pipe, err_log, live, result,
                   wvars, cvars, ovars, lvars>>

\* stream_output: File::create of the stderr log, .expect on its failure
CreateStderrLog(created) ==
    /\ rpc = "create_stderr_log"
    /\ IF created
       THEN /\ err_log' = << >>
            /\ rpc' = "read_stdout"
            /\ events' = Append(events, "stderr_log_created")
       ELSE /\ rpc' = "panicked"
            /\ events' = Append(events, "create_panicked")
            /\ UNCHANGED err_log
    /\ UNCHANGED <<prior_out, rkind,
                   child, out_pipe, err_pipe, out_log, live, result,
                   wvars, cvars, ovars, lvars>>

\* a variant of ReadStdout whose loop ends at a line that does not decode
ReadStdout_stops_at_undecodable(written) ==
    /\ rpc = "read_stdout"
    /\ out_pipe # << >>
    /\ out_pipe' = Tail(out_pipe)
    /\ LET l == line_of(Head(out_pipe))
       IN  IF ~l.ok
           THEN /\ rpc' = "read_stderr"
                /\ events' = Append(events, "stdout_eof")
                /\ UNCHANGED <<out_log, live>>
           ELSE /\ live' = Append(live, Streamed(rkind, l.val))
                /\ IF written
                   THEN /\ out_log' = Append(out_log, l.val)
                        /\ UNCHANGED <<rpc, events>>
                   ELSE /\ rpc' = "panicked"
                        /\ events' = Append(events, "write_panicked")
                        /\ UNCHANGED out_log
    /\ UNCHANGED <<prior_out, rkind, child, err_pipe, err_log, result,
                   wvars, cvars, ovars, lvars>>

\* one turn of a loop over BufReader::lines: a line that does not decode is
\* skipped; a decoded line is printed and written to the log, .expect on
\* the failure of the write
ReadStdout(written) ==
    /\ rpc = "read_stdout"
    /\ out_pipe # << >>
    /\ out_pipe' = Tail(out_pipe)
    /\ LET l == line_of(Head(out_pipe))
       IN  IF ~l.ok
           THEN UNCHANGED <<rpc, out_log, live, events>>
           ELSE /\ live' = Append(live, Streamed(rkind, l.val))
                /\ IF written
                   THEN /\ out_log' = Append(out_log, l.val)
                        /\ UNCHANGED <<rpc, events>>
                   ELSE /\ rpc' = "panicked"
                        /\ events' = Append(events, "write_panicked")
                        /\ UNCHANGED out_log
    /\ UNCHANGED <<prior_out, rkind,
                   child, err_pipe, err_log, result, wvars, cvars,
                   ovars, lvars>>

\* a variant of StdoutEof after which stream_output returns at once
StdoutEof_skips_stderr ==
    /\ rpc = "read_stdout"
    /\ out_pipe = << >>
    /\ child.state = "exited"
    /\ rpc' = "wait"
    /\ events' = Append(events, "stdout_eof")
    /\ UNCHANGED <<prior_out, rkind,
                   child, out_pipe, err_pipe, out_log, err_log, live,
                   result, wvars, cvars, ovars, lvars>>

\* the loop over stdout ends when the pipe is empty and its write end closed
StdoutEof ==
    /\ rpc = "read_stdout"
    /\ out_pipe = << >>
    /\ child.state = "exited"
    /\ rpc' = "read_stderr"
    /\ events' = Append(events, "stdout_eof")
    /\ UNCHANGED <<prior_out, rkind,
                   child, out_pipe, err_pipe, out_log, err_log, live,
                   result, wvars, cvars, ovars, lvars>>

ReadStderr(written) ==
    /\ rpc = "read_stderr"
    /\ err_pipe # << >>
    /\ err_pipe' = Tail(err_pipe)
    /\ LET l == line_of(Head(err_pipe))
       IN  IF ~l.ok
           THEN UNCHANGED <<rpc, err_log, live, events>>
           ELSE /\ live' = Append(live, Streamed(rkind, l.val))
                /\ IF written
                   THEN /\ err_log' = Append(err_log, l.val)
                        /\ UNCHANGED <<rpc, events>>
                   ELSE /\ rpc' = "panicked"
                        /\ events' = Append(events, "write_panicked")
                        /\ UNCHANGED err_log
    /\ UNCHANGED <<prior_out, rkind,
                   child, out_pipe, out_log, result, wvars, cvars,
                   ovars, lvars>>

StderrEof ==
    /\ rpc = "read_stderr"
    /\ err_pipe = << >>
    /\ child.state = "exited"
    /\ rpc' = "wait"
    /\ events' = Append(events, "stderr_eof")
    /\ UNCHANGED <<prior_out, rkind,
                   child, out_pipe, err_pipe, out_log, err_log, live,
                   result, wvars, cvars, ovars, lvars>>


\* HookOutput::stdout: the stdout log as handle_exit reads it
stdout(opened) == [opened |-> opened, lines |-> IF opened THEN out_log ELSE << >>]

\* a variant of match_wait that hands a failed wait to handle_exit too
match_wait_always_handles_exit(kind, waited, status, out) ==
    LET h == handle_exit(kind, status, out)
    IN  [value |-> h.value, log |-> h.log, handled |-> TRUE]

\* Hook::run, the match on child.wait(): Ok hands the status to
\* handle_exit, Err prints and returns the default
match_wait(kind, waited, status, out) ==
    IF waited
    THEN LET h == handle_exit(kind, status, out)
         IN  [value |-> h.value, log |-> h.log, handled |-> TRUE]
    ELSE [value |-> default(kind), log |-> <<RunFailed(kind, "io")>>,
          handled |-> FALSE]

\* the calls of handle_exit that open the stdout log: the suitability
\* hook's, for exit code 0
opens_stdout(kind, waited, status) ==
    waited /\ kind = "SuitabilityHook" /\ status = Exited(0)

\* child.wait() returns once the child has terminated, and run returns
Wait(waited, opened) ==
    /\ rpc = "wait"
    /\ child.state = "exited"
    /\ ~opened => opens_stdout(rkind, waited, child.status)
    /\ LET m == match_wait(rkind, waited, child.status, stdout(opened))
       IN  /\ result' = <<m.value>>
           /\ live' = live \o m.log
           /\ events' = events
                  \o <<IF waited THEN "wait_ok" ELSE "wait_failed">>
                  \o (IF m.handled THEN <<"handle_exit">> ELSE << >>)
                  \o (IF opened THEN << >> ELSE <<"stdout_open_failed">>)
    /\ rpc' = "returned"
    /\ UNCHANGED <<prior_out, rkind,
                   child, out_pipe, err_pipe, out_log, err_log,
                   wvars, cvars, ovars, lvars>>

\* the child writes the next line of its script, if the pipe has room
ChildWrite ==
    /\ child.state = "running"
    /\ child.script # << >>
    /\ LET w == Head(child.script)
       IN  IF w.stream = "stdout"
           THEN /\ Len(out_pipe) < PipeCap
                /\ out_pipe' = Append(out_pipe, w.line)
                /\ UNCHANGED err_pipe
           ELSE /\ Len(err_pipe) < PipeCap
                /\ err_pipe' = Append(err_pipe, w.line)
                /\ UNCHANGED out_pipe
    /\ child' = [child EXCEPT !.script = Tail(child.script),
                              !.wrote = Append(child.wrote,
                                               Head(child.script))]
    /\ UNCHANGED <<prior_out, rkind,
                   rpc, out_log, err_log, live, events, result,
                   wvars, cvars, ovars, lvars>>

\* the child terminates: it exits at the end of its script, or a signal
\* ends it wherever it stands; either closes its ends of the pipes
ChildExit(status) ==
    /\ child.state = "running"
    /\ status.exited => child.script = << >>
    /\ child' = [child EXCEPT !.state = "exited", !.status = status,
                              !.script = << >>]
    /\ UNCHANGED <<prior_out, rkind,
                   rpc, out_pipe, err_pipe, out_log, err_log, live,
                   events, result, wvars, cvars, ovars, lvars>>

Spawned == rpc \in {"create_stdout_log", "create_stderr_log"}

Reading == rpc \in {"read_stdout", "read_stderr"}

Creates == \E created \in BOOLEAN :
               CreateStdoutLog(created) \/ CreateStderrLog(created)

Reads == \E written \in BOOLEAN : ReadStdout(written) \/ ReadStderr(written)

NextRun ==
    \/ rpc = "start" /\ \E env \in ExecEnvs : Exec(env)
    \/ Spawned /\ Creates
    \/ Reading /\ Reads
    \/ StdoutEof
    \/ StderrEof
    \/ rpc = "wait" /\ \E waited, opened \in BOOLEAN : Wait(waited, opened)
    \/ ChildWrite
    \/ child.state = "running" /\ \E status \in Statuses : ChildExit(status)

SpecRun == InitRun /\ [][NextRun]_vars


(***************************************************************************)
(* Properties of Hook::run (checked under SpecRun).                        *)
(***************************************************************************)
Happened(e) == \E i \in 1..Len(events) : events[i] = e

Printed(msg) == \E i \in 1..Len(live) : live[i].msg = msg

\* C10: if exec fails, Hook::run prints "Hook failed to run" and returns the
\* default of the kind's ExitValue, and it has neither created nor truncated
\* a log file, streamed a line, waited, nor called handle_exit; if wait fails
\* after the streaming has ended, run prints the same and returns the
\* default without calling handle_exit.
C10_FailedExecOrWaitGivesDefault ==
    /\ Happened("exec_failed") =>
           /\ events = <<"exec_failed">>
           /\ rpc = "returned"
           /\ result = <<default(rkind)>>
           /\ Len(live) = 1 /\ live[1].msg = "Hook failed to run"
           /\ <<out_log, err_log>> \in PriorLogs
           /\ child.state = "none"
    /\ Happened("wait_failed") =>
           /\ rpc = "returned"
           /\ result = <<default(rkind)>>
           /\ ~Happened("handle_exit")
           /\ live # << >> /\ live[Len(live)].msg = "Hook failed to run"
           /\ Happened("stdout_eof") /\ Happened("stderr_eof")

\* wait fails for an init hook whose child printed a line and exited with 0:
\* handle_exit would have returned true
C10_Witness ==
    /\ rkind = "InitHook"
    /\ Happened("wait_failed")
    /\ child.status = Exited(0)
    /\ out_log # << >>
    /\ result = <<Bool(FALSE)>>

\* exec fails while the log files of an earlier run exist
C10_WitnessExec ==
    /\ rkind = "SuitabilityHook"
    /\ Happened("exec_failed")
    /\ out_log = PriorStdout
    /\ result = <<None>>

\* C11 as claimed: for every kind other than Run, no failure during
\* Hook::run (of the spawn, of creating or writing a log file, of the wait)
\* aborts the caller: run never panics, and once it has returned it has
\* returned a value of the kind's result type.
C11_EveryFailureIsSoft ==
    rkind # "RunHook" =>
        /\ rpc # "panicked"
        /\ rpc = "returned" =>
               (result # << >> /\ result[1].type = default(rkind).type)

\* C12 as claimed: stream_output drains the two streams concurrently:
\* whenever a line waits in the stderr pipe while the loop over stdout has
\* not yet met the end of the stream, stream_output can consume that line.
C12_StderrDrainedWhileStdoutOpen ==
    (rpc = "read_stdout" /\ err_pipe # << >>) =>
        ENABLED (\E written \in BOOLEAN : ReadStderr(written))

\* the child stands before a write to a pipe that is full
ChildBlockedOn(stream) ==
    /\ child.state = "running"
    /\ child.script # << >>
    /\ Head(child.script).stream = stream
    /\ Len(IF stream = "stdout" THEN out_pipe ELSE err_pipe) >= PipeCap

\* run stands in the loop over a pipe that is empty and not closed
RunBlockedOn(stream) ==
    /\ rpc = (IF stream = "stdout" THEN "read_stdout" ELSE "read_stderr")
    /\ (IF stream = "stdout" THEN out_pipe ELSE err_pipe) = << >>
    /\ child.state = "running"

\* SpecRunLive: SpecRun in which run and the child take the steps they can
\* take; no signal has to arrive
SpecRunLive ==
    /\ SpecRun
    /\ WF_vars(Spawned /\ Creates)
    /\ WF_vars(Reading /\ Reads)
    /\ WF_vars(StdoutEof)
    /\ WF_vars(StderrEof)
    /\ WF_vars(rpc = "wait" /\ \E waited, opened \in BOOLEAN :
                                   Wait(waited, opened))
    /\ WF_vars(rpc = "start" /\ \E env \in ExecEnvs : Exec(env))
    /\ WF_vars(ChildWrite)
    /\ WF_vars(child.state = "running" /\ \E c \in 0..4 : ChildExit(Exited(c)))

\* C13 as claimed: whatever the child writes to its two streams and
\* whatever the pipes hold, no reachable state has the child blocked writing
\* one stream while run is blocked reading the other, and every call of
\* Hook::run comes to its end.
C13_RunEventuallyReturns ==
    /\ [](~(ChildBlockedOn("stderr") /\ RunBlockedOn("stdout")))
    /\ <>(rpc \in {"returned", "panicked"})

\* the lines BufReader::lines yields for what the child wrote to a stream
RECURSIVE decoded(_, _)
decoded(writes, stream) ==
    IF writes = << >> THEN << >>
    ELSE LET w == Head(writes)
             l == line_of(w.line)
         IN  (IF w.stream = stream /\ l.ok THEN <<l.val>> ELSE << >>)
                 \o decoded(Tail(writes), stream)

\* the lines of the child that were printed to the live log
Forwarded == SelectSeq(live, LAMBDA n : n.msg = "hook output")

\* C14: once stream_output has completed, the stdout log file holds exactly
\* the decodable lines the child wrote to stdout in this invocation, in the
\* order written (one line of the file each) and nothing of an earlier
\* invocation; the stderr log file likewise for stderr; and every one of
\* these lines was printed to the live log under the preamble
\* "hook[<file-name>]:".
C14_LogsHoldThisRunsLines ==
    Happened("stderr_eof") =>
        LET outs == decoded(child.wrote, "stdout")
            errs == decoded(child.wrote, "stderr")
            all == outs \o errs
        IN  /\ out_log = outs
            /\ err_log = errs
            /\ Len(Forwarded) = Len(all)
            /\ \A i \in 1..Len(all) :
                   Forwarded[i].about = <<stream_preamble(rkind), all[i]>>

\* the child wrote a number to stdout and bytes that do not decode, and the
\* log holds the number alone
C14_Witness ==
    /\ Happened("stderr_eof")
    /\ Len(child.wrote) = 2
    /\ \E i \in 1..2 : child.wrote[i] = Write("stdout", <<InvalidByte>>)
    /\ out_log = << <<" ", "4", "2">> >>
    /\ err_log = << >>

(***************************************************************************)
(* SpecOverlap: two invocations of Hook::run whose calls of stream_output  *)
(* are not ordered by the caller.  Each creates its two log files and      *)
(* writes lines to them through its own handles, a handle writing at its   *)
(* own offset; what the child and the pipes do is left to SpecRun.         *)
(***************************************************************************)
OverlapKinds == {"PostRunHook", "PostStopHook"}

Services == {"a", "b"}

Invocations == {1, 2}

\* fs::svc_logs_path
svc_logs_path(package_name) == <<"svc", package_name, "logs">>

\* a variant of stdout_log_path that names one file per service
stdout_log_path_per_service(kind, package_name) ==
    svc_logs_path(package_name) \o <<"hook", ".stdout.log">>

stdout_log_path(kind, package_name) ==
    svc_logs_path(package_name) \o file_name(kind) \o <<".stdout.log">>

stderr_log_path(kind, package_name) ==
    svc_logs_path(package_name) \o file_name(kind) \o <<".stderr.log">>

log_path(i, stream) ==
    IF stream = "stdout" THEN stdout_log_path(inv[i].kind, inv[i].pkg)
    ELSE stderr_log_path(inv[i].kind, inv[i].pkg)

LogPaths ==
    UNION { { stdout_log_path(k, s), stderr_log_path(k, s),
              stdout_log_path_per_service(k, s) } :
            k \in OverlapKinds, s \in Services }

\* a line in a log file names the invocation that wrote it; a hole is what
\* a write beyond the end of a file leaves before it
LogLine(i, n) == [by |-> i, n |-> n]

Hole == LogLine(0, 0)

\* write(2) through a handle at offset off (counted in lines)
write_at(file, off, line) ==
    LET padded == file \o [k \in 1..(off - Len(file)) |-> Hole]
    IN  IF off < Len(padded) THEN [padded EXCEPT ![off + 1] = line]
        ELSE Append(padded, line)

InitOverlap ==
    /\ inv \in [Invocations ->
                   [kind : OverlapKinds, pkg : Services,
                    pc : {"create_stdout_log"}, out_off : {0},
                    err_off : {0}]]
    /\ log_files = [p \in LogPaths |-> Absent]
    /\ opened_by = {}
    /\ WriteIdle
    /\ CompileIdle
    /\ RunIdle
    /\ LoadIdle

\* stream_output of invocation i: File::create of the stdout log
OpenStdoutLog(i) ==
    /\ inv[i].pc = "create_stdout_log"
    /\ log_files' = [log_files EXCEPT ![log_path(i, "stdout")] = << >>]
    /\ opened_by' = opened_by \cup {<<i, log_path(i, "stdout")>>}
    /\ inv' = [inv EXCEPT ![i].pc = "create_stderr_log"]
    /\ UNCHANGED <<wvars, cvars, rvars, lvars>>

\* stream_output of invocation i: File::create of the stderr log
OpenStderrLog(i) ==
    /\ inv[i].pc = "create_stderr_log"
    /\ log_files' = [log_files EXCEPT ![log_path(i, "stderr")] = << >>]
    /\ opened_by' = opened_by \cup {<<i, log_path(i, "stderr")>>}
    /\ inv' = [inv EXCEPT ![i].pc = "read_stdout"]
    /\ UNCHANGED <<wvars, cvars, rvars, lvars>>

\* stream_output of invocation i: one line of its child's stdout is written
\* to the stdout log
LogStdout(i) ==
    /\ inv[i].pc = "read_stdout"
    /\ inv[i].out_off < MaxOutput
    /\ log_files' = [log_files EXCEPT ![log_path(i, "stdout")] =
                         write_at(@, inv[i].out_off,
                                  LogLine(i, inv[i].out_off + 1))]
    /\ inv' = [inv EXCEPT ![i].out_off = @ + 1]
    /\ UNCHANGED <<opened_by, wvars, cvars, rvars, lvars>>

\* stream_output of invocation i: its child's stdout is at its end
EndStdout(i) ==
    /\ inv[i].pc = "read_stdout"
    /\ inv' = [inv EXCEPT ![i].pc = "read_stderr"]
    /\ UNCHANGED <<log_files, opened_by, wvars, cvars, rvars, lvars>>

LogStderr(i) ==
    /\ inv[i].pc = "read_stderr"
    /\ inv[i].out_off + inv[i].err_off < MaxOutput
    /\ log_files' = [log_files EXCEPT ![log_path(i, "stderr")] =
                         write_at(@, inv[i].err_off,
                                  LogLine(i, inv[i].err_off + 1))]
    /\ inv' = [inv EXCEPT ![i].err_off = @ + 1]
    /\ UNCHANGED <<opened_by, wvars, cvars, rvars, lvars>>

\* stream_output of invocation i returns and drops its two handles
EndStderr(i) ==
    /\ inv[i].pc = "read_stderr"
    /\ inv' = [inv EXCEPT ![i].pc = "streamed"]
    /\ UNCHANGED <<log_files, opened_by, wvars, cvars, rvars, lvars>>

NextOverlap ==
    \E i \in Invocations :
        \/ OpenStdoutLog(i)
        \/ OpenStderrLog(i)
        \/ LogStdout(i)
        \/ EndStdout(i)
        \/ LogStderr(i)
        \/ EndStderr(i)

SpecOverlap == InitOverlap /\ [][NextOverlap]_vars

(***************************************************************************)
(* Properties of overlapping invocations (checked under SpecOverlap).      *)
(***************************************************************************)
\* invocation i holds a handle open for writing on the log of a stream
Holds(i, stream) ==
    IF stream = "stdout"
    THEN inv[i].pc \in {"create_stderr_log", "read_stdout", "read_stderr"}
    ELSE inv[i].pc \in {"read_stdout", "read_stderr"}

SameHook(i, j) == inv[i].kind = inv[j].kind /\ inv[i].pkg = inv[j].pkg

\* C15: nothing in Hook::run orders two invocations.  Two invocations of the
\* same kind for the same service use the same two log files, so where they
\* overlap both hold the same file open for writing; two invocations of
\* different kinds (or of different services) never create or write the
\* same log file.
C15_OnlyTheSameHookSharesLogs ==
    \A i, j \in Invocations :
        i # j =>
            /\ \A stream \in {"stdout", "stderr"} :
                   (SameHook(i, j) /\ Holds(i, stream) /\ Holds(j, stream))
                       => /\ log_path(i, stream) = log_path(j, stream)
                          /\ <<i, log_path(i, stream)>> \in opened_by
                          /\ <<j, log_path(i, stream)>> \in opened_by
            /\ ~SameHook(i, j) =>
                   \A p \in LogPaths :
                       ~(<<i, p>> \in opened_by /\ <<j, p>> \in opened_by)

\* both invocations of one hook hold the stdout log open, and the creation
\* by the second has truncated the line the first had written
C15_Witness ==
    /\ SameHook(1, 2)
    /\ Holds(1, "stdout") /\ Holds(2, "stdout")
    /\ inv[1].out_off = 1
    /\ inv[2].out_off = 0
    /\ log_files[log_path(1, "stdout")] = << >>

(***************************************************************************)
(* Properties of RunHook::run and of handle_exit (checked under SpecRun).  *)
(***************************************************************************)
\* C16: the generic run of the Run hook never spawns a process and never
\* returns a result: whatever the inputs, its one step is a panic.
C16_RunHookPanics ==
    rkind = "RunHook" =>
        /\ rpc \in {"start", "panicked"}
        /\ child.state = "none"
        /\ result = << >>
        /\ ~Happened("spawned") /\ ~Happened("exec_failed")
        /\ live = << >>

C16_Witness ==
    /\ rkind = "RunHook"
    /\ rpc = "panicked"
    /\ events = <<"run_panicked">>
    /\ child.script # << >>

\* handle_exit was called with the status of the child
Handled == Happened("handle_exit")

\* what handle_exit printed: the notices after the lines of the child
HandleExitLog == SelectSeq(live, LAMBDA n : n.msg # "hook output")

\* C17: HealthCheckHook::handle_exit maps exit code 0 to Ok, 1 to Warning,
\* 2 to Critical and 3 to Unknown; any other exit code gives Unknown and a
\* printed "unknown status code" notice; no exit code (a signal) gives
\* Unknown.
C17_HealthCheckMapping ==
    (rkind = "HealthCheckHook" /\ Handled) =>
        LET status == child.status
            unknown_code ==
                Printed("Health check exited with an unknown status code")
        IN  /\ status = Exited(0) => result = <<HealthCheck("Ok")>>
            /\ status = Exited(1) => result = <<HealthCheck("Warning")>>
            /\ status = Exited(2) => result = <<HealthCheck("Critical")>>
            /\ status = Exited(3) => result = <<HealthCheck("Unknown")>>
            /\ (status.exited /\ status.code \notin 0..3) =>
                   (result = <<HealthCheck("Unknown")>> /\ unknown_code)
            /\ ~status.exited => result = <<HealthCheck("Unknown")>>
            /\ unknown_code => (status.exited /\ status.code \notin 0..3)

C17_Witness ==
    /\ rkind = "HealthCheckHook"
    /\ Handled
    /\ child.status = Exited(4)
    /\ result = <<HealthCheck("Unknown")>>
    /\ Printed("Health check exited with an unknown status code")

C17_WitnessCritical ==
    /\ rkind = "HealthCheckHook"
    /\ Handled
    /\ child.status = Exited(2)
    /\ result = <<HealthCheck("Critical")>>

BoolKinds == {"FileUpdatedHook", "InitHook", "InstallHook", "PostStopHook"}

\* C19: for the kinds whose result is a bool (file-updated, init, install,
\* post-stop), handle_exit returns true if and only if the child exited
\* with code 0; every other exit code and every missing exit code (a
\* signal) gives false.
C19_TrueIffExitedWithZero ==
    (rkind \in BoolKinds /\ Handled) =>
        /\ result = <<Bool(child.status = Exited(0))>>
        /\ result = <<Bool(TRUE)>> <=>
               (child.status.exited /\ child.status.code = 0)

C19_Witness ==
    /\ rkind = "InitHook"
    /\ Handled
    /\ child.status = Exited(3)
    /\ result = <<Bool(FALSE)>>

\* the notices by which file-updated, install and post-stop report a failure
FailureNotices ==
    {"was terminated by signal",
     "Installation failed! exited with status code",
     "Post stop failed! exited with status code"}

\* C20 as claimed: for file-updated, install and post-stop, handle_exit
\* prints a failure notice whenever the exit code is not 0 and a
\* termination notice whenever there is no exit code; it returns no false
\* without one of the two.
C20_EveryFalseIsLogged ==
    (rkind \in {"FileUpdatedHook", "InstallHook", "PostStopHook"}
         /\ Handled /\ result = <<Bool(FALSE)>>) =>
        \E i \in 1..Len(HandleExitLog) :
            HandleExitLog[i].msg \in FailureNotices

\* C18: SuitabilityHook::handle_exit, given a stdout log file that it can
\* open, returns Some(n) exactly when the exit code is 0 and the last line
\* of that file, trimmed, parses as the unsigned integer n; it returns None
\* when the code is 0 and that line does not parse or the file is empty, and
\* None for every non-zero or missing exit code whatever the file holds.
C18_SomeIffLastLineParses ==
    (rkind = "SuitabilityHook" /\ Handled
         /\ ~Happened("stdout_open_failed")) =>
        LET parsed == IF out_log = << >> THEN Err("no line")
                      ELSE parse_u64(trim(out_log[Len(out_log)]))
        IN  /\ (child.status = Exited(0) /\ parsed.ok) =>
                   result = <<Some(parsed.val)>>
            /\ ~(child.status = Exited(0) /\ parsed.ok) => result = <<None>>
            /\ (child.status = Exited(0) /\ out_log # << >>
                    /\ out_log[Len(out_log)] = <<" ", "4", "2">>) =>
                   result = <<Some(42)>>
            /\ (out_log # << >> /\ out_log[Len(out_log)] = <<"x">>) =>
                   result = <<None>>

\* the child printed a word and then a number and exited with 0
C18_Witness ==
    /\ rkind = "SuitabilityHook"
    /\ Handled
    /\ child.status = Exited(0)
    /\ out_log = << <<"x">>, <<" ", "4", "2">> >>
    /\ result = <<Some(42)>>

ExitCodeKinds == {"ReloadHook", "ReconfigureHook", "PostRunHook"}

\* C21: for reload, reconfigure and post-run, handle_exit returns every
\* exit code, 0 included, as ExitCode(code), and returns ExitCode(-1) after
\* the termination notice when there is no exit code; reload alone prints a
\* failure notice, for every exit code but 0, and still returns that code.
C21_ExitCodeVerbatim ==
    (rkind \in ExitCodeKinds /\ Handled) =>
        LET status == child.status
        IN  /\ status.exited => result = <<ExitCode(status.code)>>
            /\ ~status.exited =>
                   /\ result = <<ExitCode(-1)>>
                   /\ Len(HandleExitLog) = 1
                   /\ HandleExitLog[1].msg = "was terminated by signal"
            /\ Printed("Reload failed! exited with status code") <=>
                   (rkind = "ReloadHook" /\ status.exited /\ status.code # 0)
            /\ (status.exited /\ (rkind # "ReloadHook" \/ status.code = 0)) =>
                   HandleExitLog = << >>

C21_Witness ==
    /\ rkind = "ReloadHook"
    /\ Handled
    /\ child.status = Exited(3)
    /\ result = <<ExitCode(3)>>
    /\ Printed("Reload failed! exited with status code")

\* C22: SmokeTestHook::handle_exit returns Ok for exit code 0, Failed(N) for
\* every other exit code N, and Failed(-1) after the termination notice
\* when there is no exit code.
C22_SmokeTestMapping ==
    (rkind = "SmokeTestHook" /\ Handled) =>
        LET status == child.status
        IN  /\ status = Exited(0) => result = <<SmokeOk>>
            /\ (status.exited /\ status.code # 0) =>
                   result = <<SmokeFailed(status.code)>>
            /\ ~status.exited =>
                   /\ result = <<SmokeFailed(-1)>>
                   /\ Len(HandleExitLog) = 1
                   /\ HandleExitLog[1].msg = "was terminated by signal"

C22_Witness ==
    /\ rkind = "SmokeTestHook"
    /\ Handled
    /\ child.status = Exited(2)
    /\ result = <<SmokeFailed(2)>>

(***************************************************************************)
(* SpecLoad: Hook::load of one kind on one template directory.  The        *)
(* directory is missing, is a file, or holds at most two of the names a    *)
(* hook template could go by.                                              *)
(***************************************************************************)
\* the names a template is looked for, or could be put, under: the
\* canonical names, their variants with an underscore, and two more
TemplateNames ==
    {file_name(k) : k \in Kinds}
        \cup {replace(file_name(k), "-", "_") : k \in Kinds}
        \cup {<<"re", "_", "load">>, <<"re", "_", "configure">>}

Shapes == {"const", "bad"}

LoadDirs ==
    { [what |-> "missing", files |-> {}], [what |-> "file", files |-> {}] }
        \cup { Dir({Tpl(n1, s1), Tpl(n2, s2)}) :
                   <<n1, s1>> \in TemplateNames \X Shapes,
                   <<n2, s2>> \in TemplateNames \X Shapes }
        \cup { Dir({}) }

InitLoad ==
    /\ ldir \in {d \in LoadDirs :
                    \A f, g \in d.files : f.name = g.name => f = g}
    /\ lcall = << >>
    /\ WriteIdle
    /\ CompileIdle
    /\ RunIdle
    /\ OverlapIdle

\* T::load(package_name, hooks_path, templates) for the kind T
HookLoad(kind) ==
    /\ lcall = << >>
    /\ LET r == Hook_load(kind, ldir)
       IN  lcall' = <<[kind |-> kind, hook |-> r.hook, log |-> r.log]>>
    /\ UNCHANGED <<ldir, wvars, cvars, rvars, ovars>>

NextLoad == \E kind \in Kinds : HookLoad(kind)

SpecLoad == InitLoad /\ [][NextLoad]_vars

(***************************************************************************)
(* Properties of Hook::load (checked under SpecLoad).                      *)
(***************************************************************************)
\* the name with every hyphen turned into an underscore
legacy_name(kind) == replace(file_name(kind), "-", "_")

\* the kinds whose file name holds a hyphen
Hyphenated == {k \in Kinds : \E i \in 1..Len(file_name(k)) :
                                 file_name(k)[i] = "-"}

DeprecatedBoth(kind) ==
    Notice("Deprecated hook file detected along with expected one",
           legacy_name(kind))

DeprecatedOnly(kind) ==
    Notice("Deprecated hook file detected", legacy_name(kind))

\* C23: Hook::load for a kind that has a legacy alias.  If the canonical
\* template exists it is the one used, and if the legacy template exists
\* too a deprecation notice naming the legacy file is printed; if only the
\* legacy template exists it is used and a notice to use the canonical name
\* is printed; if neither exists load returns None and prints nothing.  A
\* template that is used gives a hook unless it does not parse.
C23_CanonicalThenLegacy ==
    \A c \in 1..Len(lcall) :
        LET kind == lcall[c].kind
            hook == lcall[c].hook
            log == lcall[c].log
            name == file_name(kind)
            has == exists(ldir, name)
            has_legacy == exists(ldir, legacy_name(kind))
            parses(n) == shape_of(ldir, n) # "bad"
        IN  kind \in Hyphenated =>
                /\ has =>
                       /\ hook.present <=> parses(name)
                       /\ hook.present => hook.template = name
                       /\ InLog(log, DeprecatedBoth(kind)) <=> has_legacy
                       /\ ~InLog(log, DeprecatedOnly(kind))
                /\ (~has /\ has_legacy) =>
                       /\ hook.present <=> parses(legacy_name(kind))
                       /\ hook.present => hook.template = legacy_name(kind)
                       /\ InLog(log, DeprecatedOnly(kind))
                       /\ ~InLog(log, DeprecatedBoth(kind))
                /\ (~has /\ ~has_legacy) => (hook = NoHook /\ log = << >>)

\* only post_run exists, and the post-run hook is loaded from it
C23_Witness ==
    /\ lcall # << >>
    /\ lcall[1].kind = "PostRunHook"
    /\ ldir = Dir({Tpl(<<"post", "_", "run">>, "const")})
    /\ lcall[1].hook.present
    /\ lcall[1].hook.template = <<"post", "_", "run">>
    /\ lcall[1].log = <<DeprecatedOnly("PostRunHook")>>

\* both health-check and health_check exist
C23_WitnessBoth ==
    /\ lcall # << >>
    /\ lcall[1].kind = "HealthCheckHook"
    /\ exists(ldir, <<"health", "_", "check">>)
    /\ lcall[1].hook.present
    /\ lcall[1].hook.template = <<"health", "-", "check">>
    /\ lcall[1].log = <<DeprecatedBoth("HealthCheckHook")>>

\* a directory that holds one template, under a name that is not the
\* canonical name of the kind
ProbeDirs(kind) ==
    { Dir({Tpl(n, "const")}) : n \in TemplateNames \ {file_name(kind)} }

\* the kinds for which Hook::load finds a template under another name than
\* the canonical one
AliasKinds ==
    {k \in Kinds : \E d \in ProbeDirs(k) : Hook_load(k, d).hook.present}

\* the call of Hook::load consulted the canonical name alone
OnlyCanonical(c) ==
    LET name == file_name(lcall[c].kind)
    IN  /\ lcall[c].hook.present <=>
               (exists(ldir, name) /\ shape_of(ldir, name) # "bad")
        /\ lcall[c].hook.present => lcall[c].hook.template = name
        /\ \A j \in 1..Len(lcall[c].log) :
               lcall[c].log[j].msg = "Failed to load hook"

\* C24 as claimed: exactly two of the 11 kinds have a legacy alias with
\* underscores that load looks for; for the other nine load consults the
\* canonical name alone.
C24_TwoKindsHaveAlias ==
    \A c \in 1..Len(lcall) :
        /\ Cardinality(Kinds) = 11
        /\ Cardinality(AliasKinds) = 2
        /\ lcall[c].kind \notin AliasKinds => OnlyCanonical(c)

\* C24 amended: load looks for a legacy alias, the file name with its
\* hyphen turned into an underscore, for exactly the five of the 11 kinds
\* whose file name holds a hyphen (file-updated, health-check, post-run,
\* smoke-test, post-stop); for the other six load consults the canonical
\* name alone.
C24_FiveKindsHaveAlias ==
    \A c \in 1..Len(lcall) :
        LET kind == lcall[c].kind
        IN  /\ Cardinality(Kinds) = 11
            /\ AliasKinds = {"FileUpdatedHook", "HealthCheckHook",
                             "PostRunHook", "SmokeTestHook", "PostStopHook"}
            /\ AliasKinds = Hyphenated
            /\ kind \notin AliasKinds => OnlyCanonical(c)
            /\ (kind \in AliasKinds /\ ~exists(ldir, file_name(kind))
                    /\ exists(ldir, legacy_name(kind))
                    /\ shape_of(ldir, legacy_name(kind)) # "bad") =>
                   (lcall[c].hook.present
                        /\ lcall[c].hook.template = legacy_name(kind))

\* the smoke-test hook is loaded from smoke_test
C24_Witness ==
    /\ lcall # << >>
    /\ lcall[1].kind = "SmokeTestHook"
    /\ ~exists(ldir, <<"smoke", "-", "test">>)
    /\ lcall[1].hook.present
    /\ lcall[1].hook.template = <<"smoke", "_", "test">>

(***************************************************************************)
(* Properties of the failures of Hook::compile and of HookTable::load      *)
(* (checked under Spec).                                                   *)
(***************************************************************************)
\* the text Hook::compile rendered in the attempt a
Rendered(a) == render(table[a.kind], a.ctx)

\* set_permissions was called in the attempt a and left the mode unhardened
HardeningFailed(a) == a.chmod_called /\ a.post.mode # HOOK_PERMISSIONS

\* C25: when the hardening of the permissions fails inside Hook::compile,
\* the call returns the error although the compiled file already holds the
\* newly rendered content: the write is not rolled back, the mode is the one
\* the write left, and Hook::compile hands the error to its caller.
C25_HardeningFailsAfterWrite ==
    \A i \in Ops : \A a \in AttemptsIn(i) :
        (HardeningFailed(a) \/ a.res = Err("perm")) =>
            /\ a.res = Err("perm")
            /\ a.wrote /\ a.chmod_called
            /\ Rendered(a).ok /\ a.post.content = Rendered(a).val
            /\ a.post.content # a.pre.content
            /\ a.post.mode = after_write(a.pre, a.post.content).mode
            /\ ops[i].op = "Hook::compile" => ops[i].ret = Err("perm")

\* a compiled file that existed is rewritten and the hardening then fails
C25_Witness ==
    \E i \in Ops : \E a \in AttemptsIn(i) :
        /\ ops[i].op = "Hook::compile"
        /\ ops[i].ret = Err("perm")
        /\ a.pre.content # Absent
        /\ a.post.content # a.pre.content
        /\ a.post.content = Rendered(a).val

\* C26: when rendering fails inside Hook::compile, the call returns the
\* error and the compiled file is exactly as it was before the call: not
\* created, not truncated, not rewritten, its permissions untouched.
C26_RenderFailureLeavesFile ==
    \A i \in Ops : \A a \in AttemptsIn(i) :
        (~Rendered(a).ok \/ a.res = Err("render")) =>
            /\ a.res = Err("render")
            /\ a.post = a.pre
            /\ ~a.wrote /\ ~a.chmod_called
            /\ ops[i].op = "Hook::compile" => ops[i].ret = Err("render")

\* rendering fails for a hook whose compiled file exists from an earlier
\* compile
C26_Witness ==
    \E i \in Ops : \E a \in AttemptsIn(i) :
        /\ ops[i].op = "Hook::compile"
        /\ ops[i].ret = Err("render")
        /\ a.pre.content # Absent
        /\ a.pre.mode = HOOK_PERMISSIONS
        /\ a.post = a.pre

\* C27: on POSIX, when the process can change identity and the name of the
\* service's user (or of its group) resolves to no uid (gid), exec fails
\* with a permission error that names the missing identity, before any
\* child is spawned: no child runs in that attempt, and run returns the
\* default.
C27_MissingIdentityFailsBeforeSpawn ==
    LET env == child.env
        missing == env.can_run_as_svc_user
                       /\ (~env.uid_found \/ ~env.gid_found)
        err == IF ~env.uid_found THEN "PermissionFailed: No uid for user"
               ELSE "PermissionFailed: No gid for group"
    IN  (rkind # "RunHook" /\ rpc # "start" /\ missing) =>
            /\ events = <<"exec_failed">>
            /\ child.state = "none" /\ child.wrote = << >>
            /\ live = <<RunFailed(rkind, err)>>
            /\ result = <<default(rkind)>>

\* the user is found, the group is not, and a spawn would have succeeded
C27_Witness ==
    /\ rkind = "ReloadHook"
    /\ child.env = [can_run_as_svc_user |-> TRUE, uid_found |-> TRUE,
                    gid_found |-> FALSE, spawns |-> TRUE]
    /\ events = <<"exec_failed">>
    /\ live = <<RunFailed(rkind, "PermissionFailed: No gid for group")>>
    /\ child.script # << >>

\* C28: HookTable::load returns a table with every one of the 11 slots
\* empty, and reports no error (it prints nothing), whenever the template
\* directory does not exist or is not a directory.
C28_NoDirectoryGivesEmptyTable ==
    (loaded /\ templates.what # "dir") =>
        /\ Cardinality(DOMAIN table) = 11
        /\ \A k \in DOMAIN table : table[k] = NoHook
        /\ loadlog = << >>

\* the path of the templates is a file, and a compile of the table loaded
\* from it has nothing to do
C28_Witness ==
    /\ loaded
    /\ templates.what = "file"
    /\ Present(table) = {}
    /\ \E i \in TableOps : ops[i].attempts = << >> /\ ops[i].ret = Ok(FALSE)

\* the steps of a Hook::run whose spawn succeeds, in the order of the code
RunOrder ==
    <<"spawned", "stdout_log_created", "stderr_log_created", "stdout_eof",
      "stderr_eof", "wait_ok", "handle_exit">>

\* the steps that end an invocation without a call of handle_exit
RunEnds == {"create_panicked", "write_panicked", "wait_failed"}

IsPrefix(s, t) == Len(s) <= Len(t) /\ s = SubSeq(t, 1, Len(s))

\* C29: in every Hook::run whose spawn succeeds the steps come in this
\* order: both log files are created, both streams are drained to their
\* end, the child is waited for, and then handle_exit is called; handle_exit
\* is called at most once, and only with the status that a successful wait
\* returned.
C29_RunOrder ==
    Happened("spawned") =>
        LET done == SelectSeq(events, LAMBDA e : e \notin RunEnds
                                                 /\ e # "stdout_open_failed")
            ends == {i \in 1..Len(events) : events[i] \in RunEnds}
        IN  /\ IsPrefix(done, RunOrder)
            /\ \A i \in ends : i = Len(events)
            /\ Forwarded # << >> => Happened("stderr_log_created")
            /\ Happened("stderr_eof") =>
                   (out_pipe = << >> /\ err_pipe = << >>
                        /\ child.state = "exited")
            /\ Handled =>
                   /\ ends = {}
                   /\ rpc = "returned"
                   /\ result = <<handle_exit(rkind, child.status,
                            stdout(~Happened("stdout_open_failed"))).value>>

\* a run that went through every step, with a line on either stream
C29_Witness ==
    /\ events = RunOrder
    /\ out_log # << >>
    /\ err_log # << >>
    /\ rpc = "returned"

\* the reasons SuitabilityHook::handle_exit prints for a None
SuitabilityReasons ==
    {"Parsing suitability failed", "Failed to read last line of stdout",
     "did not print anything to stdout", "exited with status code",
     "was terminated by signal"}

\* C30 as claimed: every None that SuitabilityHook::handle_exit returns
\* comes with a printed reason that names its cause (a last line that does
\* not parse or cannot be read, nothing printed to stdout, an exit code
\* other than 0, a signal); no path returns None without one.
C30_EveryNoneHasAReason ==
    (rkind = "SuitabilityHook" /\ Handled /\ result = <<None>>) =>
        /\ Len(HandleExitLog) = 1
        /\ HandleExitLog[1].msg \in SuitabilityReasons
        /\ ~child.status.exited <=>
               HandleExitLog[1].msg = "was terminated by signal"
        /\ (child.status.exited /\ child.status.code # 0) <=>
               HandleExitLog[1].msg = "exited with status code"
        /\ (child.status = Exited(0) /\ out_log = << >>) <=>
               HandleExitLog[1].msg = "did not print anything to stdout"

(***************************************************************************)
(* Lines of the child that do not decode.                                  *)
(***************************************************************************)
\* the positions of what the child wrote that hold bytes that do not decode
Undecodable == {i \in 1..Len(child.wrote) : ~decodable(child.wrote[i].line)}

\* the log file of a stream
log_of(stream) == IF stream = "stdout" THEN out_log ELSE err_log

\* whether a decoded line stands in the log of its stream and was printed
LoggedAndForwarded(stream, line) ==
    /\ \E k \in 1..Len(log_of(stream)) : log_of(stream)[k] = line
    /\ \E k \in 1..Len(Forwarded) :
           Forwarded[k].about = <<stream_preamble(rkind), line>>

\* C31: a line of child output that does not decode is dropped from the live
\* log and from the log file and does not end the stream: once
\* stream_output has completed, no log file and no printed line holds bytes
\* that do not decode, and for every such line the child wrote, every
\* decodable line it wrote later to the same stream and every decodable
\* line it wrote to the other stream is in the log file of its stream and
\* was printed.
C31_UndecodableLineIsSkipped ==
    Happened("stderr_eof") =>
        /\ \A k \in 1..Len(out_log) : decodable(out_log[k])
        /\ \A k \in 1..Len(err_log) : decodable(err_log[k])
        /\ \A k \in 1..Len(Forwarded) : decodable(Forwarded[k].about[2])
        /\ \A i \in Undecodable :
               \A j \in 1..Len(child.wrote) :
                   LET bad == child.wrote[i]
                       w == child.wrote[j]
                   IN  (/\ decodable(w.line)
                        /\ j > i \/ w.stream # bad.stream)
                           => LoggedAndForwarded(w.stream,
                                                 line_of(w.line).val)

\* the child wrote bytes that do not decode to stdout and then a number, and
\* the number is in the stdout log and was printed
C31_Witness ==
    /\ Happened("stderr_eof")
    /\ child.wrote = <<Write("stdout", <<InvalidByte>>),
                       Write("stdout", <<" ", "4", "2">>)>>
    /\ out_log = << <<" ", "4", "2">> >>
    /\ Len(Forwarded) = 1

(***************************************************************************)
(* The mode of the compiled file over a sequence of compile calls.         *)
(***************************************************************************)
\* C32: the compiled files start absent and only Hook::compile changes
\* them; after any sequence of compile calls, a hook whose most recent
\* compile returned Ok has a compiled file that is absent or carries
\* HOOK_PERMISSIONS.
C32_OkMeansHardened ==
    \A kind \in Kinds :
        LET h == CompileCalls(kind)
        IN  (h # << >> /\ h[Len(h)].res.ok) =>
                \/ disk[kind].content = Absent
                \/ disk[kind].mode = HOOK_PERMISSIONS

(***************************************************************************)
(* The suitability hook and the stdout of its own child.                   *)
(***************************************************************************)
\* the numbers the lines of a log parse as
NumbersIn(lines) ==
    {parse_u64(trim(lines[k])).val :
         k \in {j \in 1..Len(lines) : parse_u64(trim(lines[j])).ok}}

\* C33: one invocation of the suitability hook after another (the earlier
\* one has left its stdout log behind, prior_out): the value run returns
\* comes from the stdout of this invocation's child alone.  Some(n) is
\* returned only for a number n the child itself wrote to stdout, never for
\* the number the earlier log holds, and an exit with code 0 without any
\* decodable stdout gives None.
C33_OnlyThisRunsStdout ==
    (rkind = "SuitabilityHook" /\ rpc = "returned") =>
        LET own == decoded(child.wrote, "stdout")
        IN  /\ result[1].tag = "Some" => result[1].n \in NumbersIn(own)
            /\ prior_out # Absent =>
                   (result[1].tag = "Some" =>
                        result[1].n \notin NumbersIn(prior_out))
            /\ (Handled /\ child.status = Exited(0) /\ own = << >>) =>
                   result = <<None>>

\* the earlier invocation logged a number; the child of this one wrote
\* nothing to stdout and exited with 0, and run returned None
C33_Witness ==
    /\ rkind = "SuitabilityHook"
    /\ prior_out # Absent
    /\ NumbersIn(prior_out) = {7}
    /\ Handled
    /\ ~Happened("stdout_open_failed")
    /\ child.status = Exited(0)
    /\ decoded(child.wrote, "stdout") = << >>
    /\ out_log = << >>
    /\ Printed("did not print anything to stdout")
    /\ result = <<None>>

\* what the child wrote to stdout, oldest first, as written
StdoutWritten == SelectSeq(child.wrote, LAMBDA w : w.stream = "stdout")

\* C34: running the suitability hook returns Some(v) only if the final line
\* the child wrote to stdout, trimmed, parses as v; no value comes from an
\* earlier line of the child's output.
C34_SomeIsTheFinalLine ==
    (rkind = "SuitabilityHook" /\ rpc = "returned"
         /\ result[1].tag = "Some") =>
        /\ StdoutWritten # << >>
        /\ LET final == line_of(StdoutWritten[Len(StdoutWritten)].line)
           IN  /\ final.ok
               /\ parse_u64(trim(final.val)) = Ok(result[1].n)

(***************************************************************************)
(* ExitCode(-1), the default of the kinds that return an exit code.        *)
(***************************************************************************)
\* C35: a child that exits normally reports a code in 0..255, so for the
\* reload, reconfigure and post-run hooks run returns ExitCode(-1) if and
\* only if the child did not exit normally: it was not spawned, the wait
\* for it failed, or a signal ended it.  A normal exit returns the code the
\* child reported, which is never -1 (exit(-1) is reported as 255).
C35_MinusOneIffNoNormalExit ==
    (rkind \in {"ReloadHook", "ReconfigureHook", "PostRunHook"}
         /\ rpc = "returned") =>
        /\ result = <<ExitCode(-1)>> <=>
               \/ Happened("exec_failed")
               \/ Happened("wait_failed")
               \/ ~child.status.exited
        /\ (Handled /\ child.status.exited) =>
               /\ child.status.code \in 0..255
               /\ result = <<ExitCode(child.status.code)>>

\* the script of a post-run hook called exit(-1): the child reported 255
\* and run returned ExitCode(255)
C35_Witness ==
    /\ rkind = "PostRunHook"
    /\ Handled
    /\ child.status = exit_status(-1)
    /\ result = <<ExitCode(255)>>

====
